---- MODULE Spec2Model ----
(***************************************************************************)
(* Model of the Spina class-wrapping engine (src/src/objects.ts, the 3.x   *)
(* sources at lines 873-1959): spinaBaseClassExtends, spinaSubclass /      *)
(* _makeSpinaSubclass, _prepareSubclass, _automergeAttr,                   *)
(* _copyPrototypeAttr, applyMixins, and the deferred construction          *)
(* protocol run by the guarded constructors.                               *)
(*                                                                         *)
(* Classes form one inheritance chain.  A class has a static surface (the  *)
(* class object) and an instance-facing surface (its prototype).  Values   *)
(* of attributes are references into a heap, so that aliasing and the      *)
(* in-place effect of _.defaults are visible.  Configuration records and   *)
(* caller-supplied option objects live in a second heap, so that reference *)
(* identity of records is visible.                                         *)
(***************************************************************************)
EXTENDS Integers, Sequences, FiniteSets, TLC

VARIABLES classes, heap, records, spinaClassCount, lastCall,
          pc, stack, target, callArgs, obj, hookCalls, events, error,
          views, renderFrame, invoked

vars == <<classes, heap, records, spinaClassCount, lastCall,
          pc, stack, target, callArgs, obj, hookCalls, events, error,
          views, renderFrame, invoked>>

classVars == <<classes, heap, records, spinaClassCount, lastCall>>

ctorVars == <<pc, stack, target, callArgs, obj, hookCalls, events, error>>

viewVars == <<views, renderFrame>>

callVars == <<invoked>>

(***************************************************************************)
(* Bounds.                                                                 *)
(***************************************************************************)
\* Longest chain of classes in the construction specification.
MaxClasses == 7

\* Longest chain of classes in the preparation specification.
MaxPrepClasses == 6

(***************************************************************************)
(* Small input sets.                                                       *)
(***************************************************************************)
\* Names of the attributes a class may declare and options may list.
Attrs == {"h", "g", "n"}

\* Keys of the plain keyed structures used as attribute values.
Keys == {"k", "a", "b"}

\* The construction-mode sentinel: a value no caller can supply.
constructing == "_constructing"

\* Argument lists callers pass to new.
ArgChoices == {<<>>, <<"x", "y">>}

\* Argument list a non-forwarding user constructor passes to super().
RewrittenArgs == <<"z">>

(***************************************************************************)
(* Option values: <<>> is undefined, <<v>> is the value v.                 *)
(***************************************************************************)
Undef == <<>>

Some(v) == <<v>>

IsDef(o) == o # <<>>

Val(o) == o[1]

\* skipParentAutomergeAttrs is undefined, true, or a list of names.
SkipUndef == [k |-> "undef", l |-> <<>>]

SkipAll == [k |-> "true", l |-> <<>>]

SkipList(l) == [k |-> "list", l |-> l]

\* An options object / configuration record (SubclassOptions).
EmptyOptions ==
    [automergeAttrs |-> Undef,
     skipParentAutomergeAttrs |-> SkipUndef,
     mixins |-> Undef,
     name |-> Undef,
     prototypeAttrs |-> Undef,
     initObject |-> Undef]

\* _.isEmpty(options): the object has no own property.
OptionsIsEmpty(o) ==
    /\ ~IsDef(o.automergeAttrs)
    /\ o.skipParentAutomergeAttrs.k = "undef"
    /\ ~IsDef(o.mixins)
    /\ ~IsDef(o.name)
    /\ ~IsDef(o.prototypeAttrs)
    /\ ~IsDef(o.initObject)

\* _.defaults(a, b) on option objects: b fills the properties a lacks.
OptionsDefaults(a, b) ==
    [automergeAttrs |->
         IF IsDef(a.automergeAttrs) THEN a.automergeAttrs
         ELSE b.automergeAttrs,
     skipParentAutomergeAttrs |->
         IF a.skipParentAutomergeAttrs.k # "undef"
         THEN a.skipParentAutomergeAttrs
         ELSE b.skipParentAutomergeAttrs,
     mixins |-> IF IsDef(a.mixins) THEN a.mixins ELSE b.mixins,
     name |-> IF IsDef(a.name) THEN a.name ELSE b.name,
     prototypeAttrs |->
         IF IsDef(a.prototypeAttrs) THEN a.prototypeAttrs
         ELSE b.prototypeAttrs,
     initObject |-> IF IsDef(a.initObject) THEN a.initObject ELSE b.initObject]

(***************************************************************************)
(* Sequence helpers.                                                       *)
(***************************************************************************)
Range(s) == {s[i] : i \in DOMAIN s}

Last(s) == s[Len(s)]

(***************************************************************************)
(* The world: the classes, the two heaps and the class counter, and        *)
(* whether the call being run has thrown.                                  *)
(* A value is 0 (undefined) or a reference n > 0 to heap[n].               *)
(***************************************************************************)
World == [classes |-> classes, heap |-> heap, records |-> records,
          count |-> spinaClassCount, thrown |-> FALSE]

NoAttrs == [a \in Attrs |-> 0]

\* References to the two objects of a class: the class (constructor) itself
\* and its prototype.
ClassObject(c) == [cls |-> c, surface |-> "class"]
PrototypeObject(c) == [cls |-> c, surface |-> "prototype"]
NoObject == [cls |-> 0, surface |-> "none"]

\* A class object.  sOwn / pOwn are the names of the own properties of the
\* class and of its prototype; objectID is the own static __spinaObjectID
\* (0: none); protoObjectID is the own __spinaObjectID of the prototype
\* (0: none); opts is the own static __spinaOptions (0: none); superRef is
\* the object the __super__ field initializer assigns; options is
\* the options object the factory that made the class was called with
\* (0: none); decl is what the class body declared; sFixed / pFixed are the
\* own properties that are neither configurable nor writable; anon marks
\* the class expression made by extend.
NewClass(kind, parent, ctor) ==
    [kind |-> kind, parent |-> parent, ctor |-> ctor,
     objectID |-> 0, protoObjectID |-> 0, opts |-> 0,
     superRef |-> NoObject,
     options |-> 0,
     statics |-> NoAttrs, sOwn |-> {}, sFixed |-> {},
     proto |-> NoAttrs, pOwn |-> {}, pFixed |-> {},
     decl |-> [a \in Attrs |-> Undef], anon |-> FALSE,
     writable |-> FALSE, protoInit |-> FALSE, initObject |-> "none"]

\* cls[attr] read through the static inheritance chain.
RECURSIVE StaticGet(_, _, _)
StaticGet(cs, c, attr) ==
    IF c = 0 THEN 0
    ELSE IF attr \in cs[c].sOwn THEN cs[c].statics[attr]
    ELSE StaticGet(cs, cs[c].parent, attr)

\* cls.prototype[attr] read through the prototype chain.
RECURSIVE ProtoGet(_, _, _)
ProtoGet(cs, c, attr) ==
    IF c = 0 THEN 0
    ELSE IF attr \in cs[c].pOwn THEN cs[c].proto[attr]
    ELSE ProtoGet(cs, cs[c].parent, attr)

\* cls.__spinaObjectID read through the static inheritance chain.
RECURSIVE StaticObjectID(_, _)
StaticObjectID(cs, c) ==
    IF c = 0 THEN 0
    ELSE IF cs[c].objectID # 0 THEN cs[c].objectID
    ELSE StaticObjectID(cs, cs[c].parent)

\* cls.prototype.__spinaObjectID read through the prototype chain.
RECURSIVE ProtoObjectID(_, _)
ProtoObjectID(cs, c) ==
    IF c = 0 THEN 0
    ELSE IF cs[c].protoObjectID # 0 THEN cs[c].protoObjectID
    ELSE ProtoObjectID(cs, cs[c].parent)

\* cls.__spinaOptions read through the static inheritance chain.
RECURSIVE SpinaOptionsRef(_, _)
SpinaOptionsRef(cs, c) ==
    IF c = 0 THEN 0
    ELSE IF cs[c].opts # 0 THEN cs[c].opts
    ELSE SpinaOptionsRef(cs, cs[c].parent)

(***************************************************************************)
(* Attribute values on the heap.                                           *)
(* t = "obj": a plain keyed structure with the mapping m.                  *)
(* t = "arr": an array; m maps its indices to its elements.                *)
(* t = "str": a string primitive; m maps its indices to its characters.    *)
(* t = "strobj": the String object Object(s) of a string primitive.        *)
(* t = "fn":  a callable; c = p = 0 for a user-authored callable whose     *)
(*            result is a new structure with the mapping m, and with the   *)
(*            key named by its argument (dyn = "arg") or by its receiver   *)
(*            (dyn = "this"); otherwise the callable made by               *)
(*            _automergeAttr from the class side c and the parent side p.  *)
(***************************************************************************)
EmptyMap == [k \in {} |-> 0]

PlainObject(m) == [t |-> "obj", m |-> m, c |-> 0, p |-> 0, dyn |-> "none"]

ArrayValue(m) == [t |-> "arr", m |-> m, c |-> 0, p |-> 0, dyn |-> "none"]

StringValue(m) == [t |-> "str", m |-> m, c |-> 0, p |-> 0, dyn |-> "none"]

StringObject(m) == [t |-> "strobj", m |-> m, c |-> 0, p |-> 0, dyn |-> "none"]

UserFunction(m, dyn) == [t |-> "fn", m |-> m, c |-> 0, p |-> 0, dyn |-> dyn]

MergedFunction(c, p) == [t |-> "fn", m |-> EmptyMap, c |-> c, p |-> p, dyn |-> "none"]

\* _.isFunction(value)
IsFunction(hp, v) == v # 0 /\ hp[v].t = "fn"

\* _.isEmpty(value): undefined, or a structure, an array or a string without
\* keys.
IsEmpty(hp, v) == v = 0 \/ (hp[v].t # "fn" /\ DOMAIN hp[v].m = {})

\* allKeys(source) of _.defaults: no key for a primitive.
AllKeys(hp, v) == IF hp[v].t = "str" THEN EmptyMap ELSE hp[v].m

\* A faulty variant: a key of both takes the value of b.
MapDefaults_ParentWins(a, b) ==
    [k \in (DOMAIN a) \cup (DOMAIN b) |-> IF k \in DOMAIN b THEN b[k] ELSE a[k]]

\* _.defaults(a, b) on mappings: every key of a, plus the keys of b that a
\* does not have.
MapDefaults(a, b) ==
    [k \in (DOMAIN a) \cup (DOMAIN b) |-> IF k \in DOMAIN a THEN a[k] ELSE b[k]]

(***************************************************************************)
(* _automergeAttr(cls, clsProto, parentProto, attr)                        *)
(* Returns the new world and whether the attribute was merged.             *)
(***************************************************************************)
\* The candidate value of the class and whether it was read from the
\* prototype.
ClsCandidate(cs, cls, attr) ==
    IF attr \in cs[cls].pOwn
    THEN [v |-> cs[cls].proto[attr], onProto |-> TRUE]
    ELSE IF attr \in cs[cls].sOwn \/ StaticGet(cs, cls, attr) # 0
    THEN [v |-> StaticGet(cs, cls, attr), onProto |-> FALSE]
    ELSE IF ProtoGet(cs, cls, attr) # 0
    THEN [v |-> ProtoGet(cs, cls, attr), onProto |-> TRUE]
    ELSE [v |-> StaticGet(cs, cls, attr), onProto |-> FALSE]

\* A faulty variant: only the class is written.
StoreMerged_ClassOnly(cs, cls, attr, newValue, onProto) ==
    [cs EXCEPT ![cls].statics[attr] = newValue,
               ![cls].sOwn = @ \cup {attr}]

\* cls[attr] = newValue, and clsProto[attr] = newValue when onProto.
StoreMerged(cs, cls, attr, newValue, onProto) ==
    [cs EXCEPT
        ![cls].statics[attr] = newValue,
        ![cls].sOwn = @ \cup {attr},
        ![cls].proto[attr] = IF onProto THEN newValue ELSE @,
        ![cls].pOwn = IF onProto THEN @ \cup {attr} ELSE @]

\* a === b: the same value, or two string primitives of the same characters.
Identical(hp, a, b) ==
    \/ a = b
    \/ /\ a # 0 /\ b # 0
       /\ hp[a].t = "str" /\ hp[b].t = "str" /\ hp[a].m = hp[b].m

\* _.defaults(x, y): x is filled in place and returned; a primitive x is
\* first replaced by Object(x).
Defaults(hp, x, y) ==
    IF hp[x].t = "str"
    THEN [hp |-> Append(hp, StringObject(MapDefaults(hp[x].m,
                                                     AllKeys(hp, y)))),
          v |-> Len(hp) + 1]
    ELSE [hp |-> [hp EXCEPT ![x].m = MapDefaults(@, AllKeys(hp, y))],
          v |-> x]

\* A faulty variant: two values that are not both plain keyed structures
\* are left alone.
MergePlain_PlainOnly(w, cls, attr, cand, parentValue, d) ==
    IF w.heap[cand.v].t = "obj" /\ w.heap[parentValue].t = "obj"
    THEN [w |-> [w EXCEPT
                    !.heap = d.hp,
                    !.classes =
                        StoreMerged(w.classes, cls, attr, d.v, cand.onProto)],
          merged |-> TRUE]
    ELSE [w |-> w, merged |-> FALSE]

\* Lines 1160-1172: neither value is a callable.  The shapes are not
\* checked: d is the outcome of _.defaults(clsValue, parentValue).
MergePlain(w, cls, attr, cand, parentValue, d) ==
    [w |-> [w EXCEPT
               !.heap = d.hp,
               !.classes =
                   StoreMerged(w.classes, cls, attr, d.v, cand.onProto)],
     merged |-> TRUE]

\* A faulty variant: the class is given a copy of the value of the parent.
AdoptParent_Copy(w, cls, attr, cand, parentValue) ==
    [w |-> [w EXCEPT
               !.heap = Append(@, w.heap[parentValue]),
               !.classes = StoreMerged(w.classes, cls, attr,
                                       Len(w.heap) + 1, cand.onProto)],
     merged |-> TRUE]

\* Lines 1158-1159: the class value is empty and the parent value is not:
\* newValue = parentValue.
AdoptParent(w, cls, attr, cand, parentValue) ==
    [w |-> [w EXCEPT !.classes = StoreMerged(w.classes, cls, attr,
                                             parentValue, cand.onProto)],
     merged |-> TRUE]

\* Lines 1137-1221: the branches of _automergeAttr on the candidate value of
\* the class and the value of the parent.
MergeValues(w, cls, attr, cand, parentValue) ==
    LET cs == w.classes
        hp == w.heap
        clsValue == cand.v
        onProto == cand.onProto
        isClsValueFunction == IsFunction(hp, clsValue)
        isParentValueFunction == IsFunction(hp, parentValue)
        clsValueIsEmpty == ~isClsValueFunction /\ IsEmpty(hp, clsValue)
        parentValueIsEmpty == ~isParentValueFunction /\ IsEmpty(hp, parentValue)
    IN
    IF Identical(hp, clsValue, parentValue)
    THEN [w |-> w, merged |-> FALSE]
    ELSE IF parentValueIsEmpty
    THEN [w |-> [w EXCEPT !.classes =
                    StoreMerged(cs, cls, attr, clsValue, onProto)],
          merged |-> FALSE]
    ELSE IF clsValueIsEmpty
    THEN AdoptParent(w, cls, attr, cand, parentValue)
    ELSE IF ~isClsValueFunction /\ ~isParentValueFunction
    THEN MergePlain(w, cls, attr, cand, parentValue,
                    Defaults(hp, clsValue, parentValue))
    ELSE \* At least one side is a callable: a new callable is stored.
         [w |-> [w EXCEPT
                    !.heap = Append(hp, MergedFunction(clsValue, parentValue)),
                    !.classes =
                        StoreMerged(cs, cls, attr, Len(hp) + 1, onProto)],
          merged |-> TRUE]

automergeAttr(w, cls, parentProto, attr) ==
    MergeValues(w, cls, attr, ClsCandidate(w.classes, cls, attr),
                StaticGet(w.classes, parentProto, attr))

(***************************************************************************)
(* Calling an attribute value: f.call(r, a).  The callable stored by       *)
(* _automergeAttr (lines 1174-1204) calls its callable sides with the same *)
(* receiver and arguments and returns _.defaults(class side, parent side). *)
(* Returns the new heap and the value returned.                            *)
(***************************************************************************)
\* What a user-authored callable returns for the receiver r and the
\* argument a.
UserResult(f, r, a) ==
    IF f.dyn = "arg" THEN MapDefaults(f.m, [k \in {a} |-> 1])
    ELSE IF f.dyn = "this" THEN MapDefaults(f.m, [k \in {r} |-> 1])
    ELSE f.m

RECURSIVE CallFn(_, _, _, _)

\* One side of a merged callable: called when it is a callable, taken as
\* it is otherwise.
Side(hp, x, r, a) ==
    IF IsFunction(hp, x) THEN CallFn(hp, x, r, a) ELSE [hp |-> hp, v |-> x]

DefaultsSides(x, sy) == Defaults(sy.hp, x, sy.v)

CallParentSide(sx, f, r, a) ==
    DefaultsSides(sx.v, Side(sx.hp, sx.hp[f].p, r, a))

CallFn(hp, f, r, a) ==
    IF hp[f].c = 0
    THEN [hp |-> Append(hp, PlainObject(UserResult(hp[f], r, a))),
          v |-> Len(hp) + 1]
    ELSE CallParentSide(Side(hp, hp[f].c, r, a), f, r, a)

(***************************************************************************)
(* _copyPrototypeAttr(cls, clsProto, attr)                                 *)
(***************************************************************************)
\* A faulty variant: nothing is copied.
copyPrototypeAttr_NoCopy(w, cls, attr) == [w |-> w, copied |-> FALSE]

copyPrototypeAttr(w, cls, attr) ==
    LET cs == w.classes IN
    IF attr \notin cs[cls].pOwn /\ attr \in cs[cls].sOwn
    THEN [w |-> [w EXCEPT !.classes =
                    [cs EXCEPT ![cls].proto[attr] = cs[cls].statics[attr],
                               ![cls].pOwn = @ \cup {attr}]],
          copied |-> TRUE]
    ELSE [w |-> w, copied |-> FALSE]

(***************************************************************************)
(* applyMixins(target, mixins)                                             *)
(* A mixin source is a plain object (isClass = FALSE, own properties in    *)
(* body) or a class (isClass = TRUE, prototype properties in body, static  *)
(* properties in statics).  Own properties are listed in the order of      *)
(* Object.getOwnPropertyNames, each with the part of its descriptor that   *)
(* matters: the value, and fixed = neither configurable nor writable (the  *)
(* properties of a frozen object).                                         *)
(***************************************************************************)
Property(name, value, fixed) == [name |-> name, value |-> value, fixed |-> fixed]

\* The mixin sources callers may list: an object literal, a class with a
\* static member, and a frozen object literal.  Their values are heap
\* objects 3-6.
MixinTable ==
    <<[isClass |-> FALSE, body |-> <<Property("h", 3, FALSE)>>,
       statics |-> <<>>],
      [isClass |-> TRUE, body |-> <<Property("h", 4, FALSE)>>,
       statics |-> <<Property("prototype", 0, TRUE),
                     Property("g", 5, FALSE)>>],
      [isClass |-> FALSE,
       body |-> <<Property("h", 6, TRUE), Property("g", 6, TRUE)>>,
       statics |-> <<>>]>>

\* Object.defineProperty(surface, name, descriptor): a TypeError when the
\* surface has the property as a fixed one and the descriptor is another.
DefineProperty(surface, p) ==
    IF surface.thrown THEN surface
    ELSE IF /\ p.name \in surface.fixed
            /\ ~(p.fixed /\ surface.values[p.name] = p.value)
    THEN [surface EXCEPT !.thrown = TRUE]
    ELSE [own |-> surface.own \cup {p.name},
          values |-> [surface.values EXCEPT ![p.name] = p.value],
          fixed |-> IF p.fixed THEN surface.fixed \cup {p.name}
                    ELSE surface.fixed \ {p.name},
          thrown |-> FALSE]

\* Object.defineProperty for every own name, in order.
RECURSIVE DefineAll(_, _)
DefineAll(surface, props) ==
    IF props = <<>> THEN surface
    ELSE DefineAll(DefineProperty(surface, Head(props)), Tail(props))

\* target.prototype and target as surfaces.
ProtoSurface(cs, tgt) ==
    [own |-> cs[tgt].pOwn, values |-> cs[tgt].proto, fixed |-> cs[tgt].pFixed,
     thrown |-> FALSE]

StaticSurface(cs, tgt) ==
    [own |-> cs[tgt].sOwn, values |-> cs[tgt].statics,
     fixed |-> cs[tgt].sFixed, thrown |-> FALSE]

SetProtoSurface(cs, tgt, sp) ==
    [cs |-> [cs EXCEPT ![tgt].pOwn = sp.own, ![tgt].proto = sp.values,
                       ![tgt].pFixed = sp.fixed],
     thrown |-> sp.thrown]

SetStaticSurface(cs, tgt, ss) ==
    [cs |-> [cs EXCEPT ![tgt].sOwn = ss.own, ![tgt].statics = ss.values,
                       ![tgt].sFixed = ss.fixed],
     thrown |-> ss.thrown]

\* Lines 1935 and 1946: every own name but 'prototype'.
NamesButPrototype(props) == SelectSeq(props, LAMBDA p : p.name # "prototype")

\* A faulty variant: the own properties of any source, class or not, are
\* defined on the target class too.
ApplyMixinStatics_AnySource(st, tgt, mixin) ==
    IF st.thrown THEN st
    ELSE SetStaticSurface(st.cs, tgt,
             DefineAll(StaticSurface(st.cs, tgt),
                       IF mixin.isClass THEN NamesButPrototype(mixin.statics)
                       ELSE mixin.body))

\* Lines 1944-1953: the static members of a class-shaped source.
ApplyMixinStatics(st, tgt, mixin) ==
    IF st.thrown \/ ~mixin.isClass THEN st
    ELSE SetStaticSurface(st.cs, tgt,
             DefineAll(StaticSurface(st.cs, tgt),
                       NamesButPrototype(mixin.statics)))

\* Lines 1932-1953: one round of the loop over the mixins.
ApplyMixin(cs, tgt, mixin) ==
    ApplyMixinStatics(
        SetProtoSurface(cs, tgt,
            DefineAll(ProtoSurface(cs, tgt), NamesButPrototype(mixin.body))),
        tgt, mixin)

\* st holds the classes and whether a TypeError was thrown.
RECURSIVE applyMixins(_, _, _)
applyMixins(st, tgt, mixins) ==
    IF mixins = <<>> \/ st.thrown THEN st
    ELSE applyMixins(ApplyMixin(st.cs, tgt, MixinTable[Head(mixins)]),
                     tgt, Tail(mixins))

(***************************************************************************)
(* _prepareSubclass(cls, options)                                          *)
(* optRef is the caller's options object in records.  The parent surface   *)
(* the code returns is Object.getPrototypeOf(cls), the parent class.       *)
(***************************************************************************)
\* A faulty variant: the prototype of the class that cls extends.
ParentProto_Prototype(cs, cls) == PrototypeObject(cs[cls].parent)

\* Line 1285, Object.getPrototypeOf(cls): the class that cls extends.
ParentProto(cs, cls) == ClassObject(cs[cls].parent)

\* The state of a loop pair: the world, seen, and the two lists.
LoopStart(w) ==
    [w |-> w, seen |-> {}, seenParentAttrs |-> <<>>, seenClassAttrs |-> <<>>]

\* One round of a loop over the parent's list: the world after the call,
\* seen[attr] = true when the call returned true, and the push.
ParentLoopStep(st, attr, w, hit) ==
    [w |-> w,
     seen |-> IF hit THEN st.seen \cup {attr} ELSE st.seen,
     seenParentAttrs |-> Append(st.seenParentAttrs, attr),
     seenClassAttrs |-> st.seenClassAttrs]

\* One round of a loop over the class's own list.
ClassLoopStep(st, attr, w) ==
    [st EXCEPT !.w = w, !.seenClassAttrs = Append(@, attr)]

CopyStep(st, attr, r) == ParentLoopStep(st, attr, r.w, r.copied)

MergeStep(st, attr, r) == ParentLoopStep(st, attr, r.w, r.merged)

\* Loop over parentOptions.prototypeAttrs.
RECURSIVE ProtoParentLoop(_, _, _)
ProtoParentLoop(st, cls, attrs) ==
    IF attrs = <<>> THEN st
    ELSE ProtoParentLoop(
             CopyStep(st, Head(attrs),
                      copyPrototypeAttr(st.w, cls, Head(attrs))),
             cls, Tail(attrs))

\* Loop over options.prototypeAttrs.
RECURSIVE ProtoClassLoop(_, _, _)
ProtoClassLoop(st, cls, attrs) ==
    IF attrs = <<>> THEN st
    ELSE IF Head(attrs) \in st.seen
    THEN ProtoClassLoop(st, cls, Tail(attrs))
    ELSE ProtoClassLoop(
             ClassLoopStep(st, Head(attrs),
                           copyPrototypeAttr(st.w, cls, Head(attrs)).w),
             cls, Tail(attrs))

\* A faulty variant: the parent loop leaves out nothing.
IsSkipped_Never(skip, attr) == FALSE

\* Whether the parent loop leaves out attr: skipped[attr].
IsSkipped(skip, attr) == skip.k = "list" /\ attr \in Range(skip.l)

\* A faulty variant: a skipped name is still pushed to seenParentAttrs.
SkipStep_Records(st, attr) ==
    [st EXCEPT !.seenParentAttrs = Append(@, attr)]

\* Lines 1382-1391: a round of the parent loop for a skipped name does
\* nothing.
SkipStep(st, attr) == st

\* Loop over parentOptions.automergeAttrs.
RECURSIVE MergeParentLoop(_, _, _, _, _)
MergeParentLoop(st, cls, parentProto, skip, attrs) ==
    IF attrs = <<>> THEN st
    ELSE IF IsSkipped(skip, Head(attrs))
    THEN MergeParentLoop(SkipStep(st, Head(attrs)), cls, parentProto, skip,
                         Tail(attrs))
    ELSE MergeParentLoop(
             MergeStep(st, Head(attrs),
                       automergeAttr(st.w, cls, parentProto, Head(attrs))),
             cls, parentProto, skip, Tail(attrs))

\* Loop over options.automergeAttrs.
RECURSIVE MergeClassLoop(_, _, _, _)
MergeClassLoop(st, cls, parentProto, attrs) ==
    IF attrs = <<>> THEN st
    ELSE IF Head(attrs) \in st.seen
    THEN MergeClassLoop(st, cls, parentProto, Tail(attrs))
    ELSE MergeClassLoop(
             ClassLoopStep(st, Head(attrs),
                 automergeAttr(st.w, cls, parentProto, Head(attrs)).w),
             cls, parentProto, Tail(attrs))

\* Lines 1290-1293: mixins.
MixinsApplied(w, st) == [w EXCEPT !.classes = st.cs, !.thrown = st.thrown]

PrepMixins(w, cls, options) ==
    IF IsDef(options.mixins)
    THEN MixinsApplied(w, applyMixins([cs |-> w.classes, thrown |-> FALSE],
                                      cls, Val(options.mixins)))
    ELSE w

\* Lines 1309-1318, 1320-1327: the two prototypeAttrs loops, when present.
ProtoParentPart(w, cls, parentOptions) ==
    IF IsDef(parentOptions.prototypeAttrs)
    THEN ProtoParentLoop(LoopStart(w), cls, Val(parentOptions.prototypeAttrs))
    ELSE LoopStart(w)

ProtoClassPart(s1, cls, options) ==
    IF IsDef(options.prototypeAttrs)
    THEN ProtoClassLoop(s1, cls, Val(options.prototypeAttrs))
    ELSE s1

\* Lines 1329-1339: the merged prototypeAttrs list is kept when the class
\* has a list of its own and both loops pushed names.
ProtoResult(s2, options, mergeOptions) ==
    [w |-> s2.w,
     mergeOptions |->
         IF /\ IsDef(options.prototypeAttrs)
            /\ Len(s2.seenParentAttrs) > 0
            /\ Len(s2.seenClassAttrs) > 0
         THEN [mergeOptions EXCEPT !.prototypeAttrs =
                  Some(s2.seenParentAttrs \o s2.seenClassAttrs)]
         ELSE mergeOptions]

\* Lines 1295-1340: prototypeAttrs.  r and the result hold the world and
\* mergeOptions.
PrepPrototypeAttrs(r, cls, options, parentOptions) ==
    IF IsDef(options.prototypeAttrs) \/ IsDef(parentOptions.prototypeAttrs)
    THEN ProtoResult(
             ProtoClassPart(ProtoParentPart(r.w, cls, parentOptions),
                            cls, options),
             options, r.mergeOptions)
    ELSE r

\* Line 1403: "if (skipped || ...)"; skipped is an object, which is truthy.
StoreMergedList(seenParentAttrs, seenClassAttrs) ==
    TRUE \/ (Len(seenParentAttrs) > 0 /\ Len(seenClassAttrs) > 0)

\* Lines 1361-1391, 1393-1401: the two automergeAttrs loops, when present.
MergeParentPart(w, cls, parentProto, options, parentOptions) ==
    IF /\ options.skipParentAutomergeAttrs.k # "true"
       /\ IsDef(parentOptions.automergeAttrs)
    THEN MergeParentLoop(LoopStart(w), cls, parentProto,
                         options.skipParentAutomergeAttrs,
                         Val(parentOptions.automergeAttrs))
    ELSE LoopStart(w)

MergeClassPart(s1, cls, parentProto, options) ==
    IF IsDef(options.automergeAttrs)
    THEN MergeClassLoop(s1, cls, parentProto, Val(options.automergeAttrs))
    ELSE s1

\* Lines 1403-1414: the merged automergeAttrs list.
MergeResult(s2, mergeOptions) ==
    [w |-> s2.w,
     mergeOptions |->
         IF StoreMergedList(s2.seenParentAttrs, s2.seenClassAttrs)
         THEN [mergeOptions EXCEPT !.automergeAttrs =
                  Some(s2.seenParentAttrs \o s2.seenClassAttrs)]
         ELSE mergeOptions]

\* Lines 1346-1415: automergeAttrs.  r and the result hold the world and
\* mergeOptions.
PrepAutomergeAttrs(r, cls, parentProto, options, parentOptions) ==
    IF IsDef(options.automergeAttrs) \/ IsDef(parentOptions.automergeAttrs)
    THEN MergeResult(
             MergeClassPart(
                 MergeParentPart(r.w, cls, parentProto, options, parentOptions),
                 cls, parentProto, options),
             r.mergeOptions)
    ELSE r

\* Lines 1427-1431: an automergeAttrs that resolved to an empty list is
\* deleted from the new record.
DropEmptyAutomerge(o) ==
    IF IsDef(o.automergeAttrs) /\ Len(Val(o.automergeAttrs)) = 0
    THEN [o EXCEPT !.automergeAttrs = Undef]
    ELSE o

\* A faulty variant: a class without options gets a copy of its parent's
\* record.
PrepSpinaOptions_CopyParent(recs, optRef, parentRef, mergeOptions) ==
    LET options == recs[optRef]
        parentOptions == IF parentRef = 0 THEN EmptyOptions ELSE recs[parentRef]
        hasOptions == ~OptionsIsEmpty(options)
        hasParentOptions == ~OptionsIsEmpty(parentOptions)
    IN
    IF hasOptions /\ hasParentOptions
    THEN [records |->
              Append(recs, DropEmptyAutomerge(
                  OptionsDefaults(OptionsDefaults(mergeOptions, options),
                                  parentOptions))),
          ref |-> Len(recs) + 1]
    ELSE IF hasParentOptions
    THEN [records |-> Append(recs, parentOptions), ref |-> Len(recs) + 1]
    ELSE [records |-> recs, ref |-> optRef]

\* A faulty variant: the parent's record is filled in place and shared when
\* both the class and its parent have options.
PrepSpinaOptions_InPlace(recs, optRef, parentRef, mergeOptions) ==
    LET options == recs[optRef]
        parentOptions == IF parentRef = 0 THEN EmptyOptions ELSE recs[parentRef]
        hasOptions == ~OptionsIsEmpty(options)
        hasParentOptions == ~OptionsIsEmpty(parentOptions)
    IN
    IF hasOptions /\ hasParentOptions
    THEN [records |->
              [recs EXCEPT ![parentRef] = DropEmptyAutomerge(
                  OptionsDefaults(OptionsDefaults(mergeOptions, options),
                                  parentOptions))],
          ref |-> parentRef]
    ELSE IF hasParentOptions
    THEN [records |-> recs, ref |-> parentRef]
    ELSE [records |-> recs, ref |-> optRef]

\* Lines 1417-1447: the configuration record of the class.  Returns the
\* records heap and the reference stored in cls.__spinaOptions.
PrepSpinaOptions(recs, optRef, parentRef, mergeOptions) ==
    LET options == recs[optRef]
        parentOptions == IF parentRef = 0 THEN EmptyOptions ELSE recs[parentRef]
        hasOptions == ~OptionsIsEmpty(options)
        hasParentOptions == ~OptionsIsEmpty(parentOptions)
    IN
    IF hasOptions /\ hasParentOptions
    THEN [records |->
              Append(recs, DropEmptyAutomerge(
                  OptionsDefaults(OptionsDefaults(mergeOptions, options),
                                  parentOptions))),
          ref |-> Len(recs) + 1]
    ELSE IF hasParentOptions
    THEN [records |-> recs, ref |-> parentRef]
    ELSE [records |-> recs, ref |-> optRef]

\* Line 1447: cls.__spinaOptions = spinaOptions
SetSpinaOptions(w, cls, r) ==
    [w EXCEPT !.records = r.records,
              !.classes = [@ EXCEPT ![cls].opts = r.ref]]

\* Lines 1417-1447 on the world and mergeOptions the loops left.
StoreSpinaOptions(r, cls, optRef, parentRef) ==
    SetSpinaOptions(r.w, cls,
        PrepSpinaOptions(r.w.records, optRef, parentRef, r.mergeOptions))

\* Lines 1295-1449, not reached when applyMixins has thrown.
PrepAfterMixins(w, cls, optRef, parentProto, parentRef, options, parentOpts) ==
    IF w.thrown THEN w
    ELSE StoreSpinaOptions(
             PrepAutomergeAttrs(
                 PrepPrototypeAttrs(
                     [w |-> w, mergeOptions |-> EmptyOptions],
                     cls, options, parentOpts),
                 cls, parentProto, options, parentOpts),
             cls, optRef, parentRef)

prepareSubclass(w, cls, optRef) ==
    LET parentProto == ParentProto(w.classes, cls).cls
        parentRef == SpinaOptionsRef(w.classes, parentProto)
        options == w.records[optRef]
        parentOptions == IF parentRef = 0 THEN EmptyOptions
                         ELSE w.records[parentRef]
    IN PrepAfterMixins(PrepMixins(w, cls, options), cls, optRef, parentProto,
                       parentRef, options, parentOptions)

(***************************************************************************)
(* spinaBaseClassExtends(BaseClass, options)                               *)
(***************************************************************************)
\* When the preparation throws, the class being defined is never handed
\* out; the counter keeps the identifier it consumed.
DiscardClass(w1, w) ==
    IF w1.thrown THEN [w EXCEPT !.count = w1.count, !.thrown = TRUE] ELSE w1

\* A faulty variant: without options.initObject the constructor of the
\* existing class is the hook, whatever the class is.
SelectInitObject_Constructor(o, BaseClass) ==
    IF IsDef(o.initObject) THEN "options" ELSE "constructor"

\* Lines 1522-1538: isClass = !props.writable, and the function that the
\* initObject() of the base wrapper applies: options.initObject, or
\* BaseClass.prototype.initObject, or a no-op for a class and BaseClass
\* itself for a prototype-based constructor.
SelectInitObject(o, BaseClass) ==
    IF IsDef(o.initObject) THEN "options"
    ELSE IF BaseClass.protoInit THEN "prototype"
    ELSE IF ~BaseClass.writable THEN "noop"
    ELSE "constructor"

spinaBaseClassExtends(w, BaseClass, optRef) ==
    LET classID == w.count + 1
        cls == Len(w.classes) + 1
        w1 == [w EXCEPT
                  !.count = classID,
                  !.classes = Append(@,
                      [NewClass("base", BaseClass, "guarded")
                          EXCEPT !.objectID = classID,
                                 !.options = optRef,
                                 !.initObject =
                                     SelectInitObject(w.records[optRef],
                                                      w.classes[BaseClass])])]
    IN DiscardClass(prepareSubclass(w1, cls, optRef), w)

(***************************************************************************)
(* _makeSpinaSubclass(BaseClass, options)                                  *)
(* The class handed in is prepared; the wrapper produced extends it.       *)
(***************************************************************************)
\* Lines 1733-1817: the wrapper class, defined once the preparation has
\* returned.
DefineWrapper(w1, BaseClass, classID, parentProto, optRef) ==
    IF w1.thrown THEN w1
    ELSE [w1 EXCEPT !.classes = Append(@,
             [NewClass("sub", BaseClass, "guarded")
                 EXCEPT !.objectID = classID, !.superRef = parentProto,
                        !.options = optRef])]

\* A faulty variant: the counter is read but not advanced.
makeSpinaSubclass_SameID(w, BaseClass, optRef) ==
    DefineWrapper(
        prepareSubclass(w, BaseClass, optRef),
        BaseClass, w.count, ParentProto(w.classes, BaseClass), optRef)

makeSpinaSubclass(w, BaseClass, optRef) ==
    DefineWrapper(
        prepareSubclass([w EXCEPT !.count = w.count + 1], BaseClass, optRef),
        BaseClass, w.count + 1, ParentProto(w.classes, BaseClass), optRef)

(***************************************************************************)
(* A user-authored class "class X extends Parent { static h = {...} }".    *)
(* decl gives, per attribute, the keys of the declared static structure;   *)
(* the value of every key is the index of the declaring class.             *)
(***************************************************************************)
NoDecl == [a \in Attrs |-> Undef]

RECURSIVE DeclareStatics(_, _, _, _)
DeclareStatics(w, cls, decl, todo) ==
    IF todo = {} THEN w
    ELSE LET attr == CHOOSE a \in todo : TRUE IN
         IF IsDef(decl[attr])
         THEN DeclareStatics(
                  [w EXCEPT
                      !.heap = Append(@, PlainObject(
                                   [k \in Val(decl[attr]) |-> cls])),
                      !.classes = [@ EXCEPT
                          ![cls].statics[attr] = Len(w.heap) + 1,
                          ![cls].sOwn = @ \cup {attr}]],
                  cls, decl, todo \ {attr})
         ELSE DeclareStatics(w, cls, decl, todo \ {attr})

userClass(w, parent, decl, ctor) ==
    LET cls == Len(w.classes) + 1
        w1 == [w EXCEPT !.classes = Append(@,
                  [NewClass("user", parent, ctor) EXCEPT !.decl = decl])]
    IN DeclareStatics(w1, cls, decl, Attrs)

(***************************************************************************)
(* static extend(protoProps, staticProps, spinaOptions), called on the     *)
(* class parentClass.  protoProps gives a value per name (0: not given),   *)
(* staticProps the declared static structures.  Object.assign sets each    *)
(* property; setting one that the chain holds as a fixed property throws.  *)
(***************************************************************************)
\* The caller's options object is allocated, then handed to the factory.
WithOptions(w, o) == [w EXCEPT !.records = Append(@, o)]

RECURSIVE ProtoIsFixed(_, _, _)
ProtoIsFixed(cs, c, name) ==
    IF c = 0 THEN FALSE
    ELSE IF name \in cs[c].pOwn THEN name \in cs[c].pFixed
    ELSE ProtoIsFixed(cs, cs[c].parent, name)

RECURSIVE StaticIsFixed(_, _, _)
StaticIsFixed(cs, c, name) ==
    IF c = 0 THEN FALSE
    ELSE IF name \in cs[c].sOwn THEN name \in cs[c].sFixed
    ELSE StaticIsFixed(cs, cs[c].parent, name)

AssignThrows(cs, parentClass, protoProps, staticProps) ==
    \E a \in Attrs :
        \/ protoProps[a] # 0 /\ ProtoIsFixed(cs, parentClass, a)
        \/ IsDef(staticProps[a]) /\ StaticIsFixed(cs, parentClass, a)

\* Lines 1588-1597: class extends parentClass {}, with the properties.
AssignProps(w, cls, protoProps) ==
    [w EXCEPT !.classes[cls].proto = protoProps,
              !.classes[cls].pOwn = {a \in Attrs : protoProps[a] # 0},
              !.classes[cls].anon = TRUE]

\* A faulty variant: the class is returned as it is, not wrapped.
extend_Unwrapped(w, parentClass, protoProps, staticProps, o) ==
    IF AssignThrows(w.classes, parentClass, protoProps, staticProps)
    THEN [w EXCEPT !.thrown = TRUE]
    ELSE AssignProps(userClass(w, parentClass, staticProps, "forward"),
                     Len(w.classes) + 1, protoProps)

extend(w, parentClass, protoProps, staticProps, o) ==
    IF AssignThrows(w.classes, parentClass, protoProps, staticProps)
    THEN [w EXCEPT !.thrown = TRUE]
    ELSE DiscardClass(
             makeSpinaSubclass(
                 WithOptions(
                     AssignProps(
                         userClass(w, parentClass, staticProps, "forward"),
                         Len(w.classes) + 1, protoProps),
                     o),
                 Len(w.classes) + 1, Len(w.records) + 1),
             w)

(***************************************************************************)
(* Class definition actions.  Classes are defined only while no            *)
(* construction is running (one thread).                                   *)
(***************************************************************************)
\* The record of the call being made: its operation, its target class, the
\* mixins it lists, the properties given to extend, and the classes, the
\* heap and the counter as they were before it.
Call(op, tgt, mixins) ==
    [op |-> op, target |-> tgt, mixins |-> mixins, thrown |-> FALSE,
     before |-> classes, countBefore |-> spinaClassCount,
     heapBefore |-> heap, protoProps |-> NoAttrs, staticProps |-> NoDecl]

NoCall == [op |-> "none", target |-> 0, mixins |-> <<>>, thrown |-> FALSE,
           before |-> <<>>, countBefore |-> 0,
           heapBefore |-> <<>>, protoProps |-> NoAttrs, staticProps |-> NoDecl]

MixinsOf(o) == IF IsDef(o.mixins) THEN Val(o.mixins) ELSE <<>>

SetWorld(w, call) ==
    /\ classes' = w.classes
    /\ heap' = w.heap
    /\ records' = w.records
    /\ spinaClassCount' = w.count
    /\ lastCall' = [call EXCEPT !.thrown = w.thrown]

BaseClassExtends(o) ==
    /\ pc = "idle"
    /\ Len(classes) = 1
    /\ SetWorld(spinaBaseClassExtends(WithOptions(World, o), 1,
                                      Len(records) + 1),
                Call("spinaBaseClassExtends", 1, MixinsOf(o)))
    /\ UNCHANGED <<ctorVars, viewVars, callVars>>

DefineClass(decl, ctor, max) ==
    /\ pc = "idle"
    /\ Len(classes) >= 2
    /\ Len(classes) < max
    /\ SetWorld(userClass(World, Len(classes), decl, ctor),
                Call("class", Len(classes), <<>>))
    /\ UNCHANGED <<ctorVars, viewVars, callVars>>

SpinaSubclass(o, max) ==
    /\ pc = "idle"
    /\ Len(classes) < max
    /\ Last(classes).kind = "user"
    /\ SetWorld(makeSpinaSubclass(WithOptions(World, o), Len(classes),
                                  Len(records) + 1),
                Call("spinaSubclass", Len(classes), MixinsOf(o)))
    /\ UNCHANGED <<ctorVars, viewVars, callVars>>

\* P.extend(protoProps, staticProps, o) on a class P below the base
\* wrapper.
Extend(P, protoProps, staticProps, o, max) ==
    /\ pc = "idle"
    /\ P \in 2..Len(classes)
    /\ Len(classes) + 1 < max
    /\ SetWorld(extend(World, P, protoProps, staticProps, o),
                [Call("extend", P, MixinsOf(o)) EXCEPT
                    !.protoProps = protoProps, !.staticProps = staticProps])
    /\ UNCHANGED <<ctorVars, viewVars, callVars>>

\* A direct call of the exported applyMixins(target, mixins).
ApplyMixins(tgt, mixins) ==
    /\ pc = "idle"
    /\ tgt \in 2..Len(classes)
    /\ SetWorld(MixinsApplied(World,
                    applyMixins([cs |-> classes, thrown |-> FALSE],
                                tgt, mixins)),
                Call("applyMixins", tgt, mixins))
    /\ UNCHANGED <<ctorVars, viewVars, callVars>>

\* class U extends <the last class> { ... } declaring one attribute: a
\* static property (where = "static"), or a method or prototype property
\* (where = "proto"), with a new value of the given shape.
shapedClass(w, parent, d) ==
    [w EXCEPT
        !.heap = Append(@, d.value),
        !.classes = Append(@,
            IF d.where = "static"
            THEN [NewClass("user", parent, "forward") EXCEPT
                     !.statics[d.attr] = Len(w.heap) + 1,
                     !.sOwn = {d.attr}]
            ELSE [NewClass("user", parent, "forward") EXCEPT
                     !.proto[d.attr] = Len(w.heap) + 1,
                     !.pOwn = {d.attr}])]

DeclareClass(d, max) ==
    /\ pc = "idle"
    /\ Len(classes) >= 2
    /\ Len(classes) < max
    /\ SetWorld(shapedClass(World, Len(classes), d),
                Call("class", Len(classes), <<>>))
    /\ UNCHANGED <<ctorVars, viewVars, callVars>>

\* The attribute of class c read through the class or through its
\* prototype (and so through its instances).
ReadAttr(cs, c, attr, surface) ==
    IF surface = "class" THEN StaticGet(cs, c, attr)
    ELSE ProtoGet(cs, c, attr)

Returned(res, f, r, a) ==
    /\ heap' = res.hp
    /\ invoked' = Append(invoked,
           [fn |-> f, recv |-> r, arg |-> a, result |-> res.v,
            value |-> res.hp[res.v].m, heapBefore |-> heap,
            heapAfter |-> res.hp])

\* A call of the callable held by an attribute, with the receiver r and
\* the argument a.
Invoke(c, attr, surface, r, a, max) ==
    /\ pc = "idle"
    /\ Len(invoked) < max
    /\ c \in 2..Len(classes)
    /\ IsFunction(heap, ReadAttr(classes, c, attr, surface))
    /\ Returned(CallFn(heap, ReadAttr(classes, c, attr, surface), r, a),
                ReadAttr(classes, c, attr, surface), r, a)
    /\ UNCHANGED <<classes, records, spinaClassCount, lastCall>>
    /\ UNCHANGED <<ctorVars, viewVars>>

(***************************************************************************)
(* Construction: "new Target(...args)".                                    *)
(* stack holds the constructor frames, innermost last.  A frame in phase   *)
(* "enter" is about to run its constructor body; in any other phase it     *)
(* waits for its super(...) call, and resumes when it is the top frame.    *)
(***************************************************************************)
Frame(cls, args, phase) == [cls |-> cls, args |-> args, phase |-> phase]

Event(e, cls, s) == [e |-> e, cls |-> cls, s |-> s]

Top == stack[Len(stack)]

Pop(st) == SubSeq(st, 1, Len(st) - 1)

\* args[0] === _constructing
HasSentinel(args) == Len(args) > 0 /\ args[1] = constructing

\* A faulty variant: the external branch forwards what it received.
SuperArgs_Forward(args) == args

\* The arguments a subclass wrapper's external branch passes to super().
SuperArgs(args) == <<constructing>> \o args

\* A faulty variant: the guard compares the requested class's own token only.
SubclassGuard_OwnToken(tgt, cls, cs) ==
    tgt # cls /\ cs[tgt].objectID = cs[cls].objectID

\* Line 1792: a requested class that inherits this wrapper's token and is
\* not this wrapper was never set up with spinaSubclass().
SubclassGuard(tgt, cls, cs) ==
    tgt # cls /\ StaticObjectID(cs, tgt) = cs[cls].objectID

RECURSIVE HasInitObject(_, _)
HasInitObject(cs, c) ==
    IF c = 0 THEN FALSE
    ELSE cs[c].kind = "base" \/ HasInitObject(cs, cs[c].parent)

\* A faulty variant: every externally entered wrapper initializes the object.
InitGuard_AnyWrapper(tgt, cls, cs, o) == TRUE

\* Line 1805: target === cls && this['initObject'].  The bare object's
\* prototype chain passes through the base wrapper, which defines
\* initObject().
InitGuard(tgt, cls, cs, o) == tgt = cls /\ HasInitObject(cs, o.proto)

\* Lines 1671-1673: this.initObject(...) finds the method of the base
\* wrapper below the class c, which applies the function chosen when the
\* base wrapper was made.
RECURSIVE InitObjectOf(_, _)
InitObjectOf(cs, c) ==
    IF c = 0 THEN "none"
    ELSE IF cs[c].kind = "base" THEN cs[c].initObject
    ELSE InitObjectOf(cs, cs[c].parent)

\* A faulty variant: initObject() receives the arguments given to super().
InitArgs_WithSentinel(args) == SuperArgs(args)

\* The arguments handed to initObject().
InitArgs(args) == args

\* A faulty variant: the base wrapper allocates whether or not the sentinel is there.
BaseCtorOutcome_NoSentinelCheck(args, tgt, cls, cs) ==
    IF ProtoObjectID(cs, tgt) = cs[cls].objectID
    THEN [err |-> "UninitializedSubclass", alloc |-> FALSE]
    ELSE [err |-> "none", alloc |-> TRUE]

\* A faulty variant: the base wrapper allocates first and checks afterwards.
BaseCtorOutcome_AllocateFirst(args, tgt, cls, cs) ==
    IF HasSentinel(args)
    THEN IF ProtoObjectID(cs, tgt) = cs[cls].objectID
         THEN [err |-> "UninitializedSubclass", alloc |-> TRUE]
         ELSE [err |-> "none", alloc |-> TRUE]
    ELSE [err |-> "AbstractInstantiation", alloc |-> TRUE]

\* Lines 1635-1657: what the base wrapper's constructor does.
BaseCtorOutcome(args, tgt, cls, cs) ==
    IF HasSentinel(args)
    THEN IF ProtoObjectID(cs, tgt) = cs[cls].objectID
         THEN [err |-> "UninitializedSubclass", alloc |-> FALSE]
         ELSE [err |-> "none", alloc |-> TRUE]
    ELSE [err |-> "AbstractInstantiation", alloc |-> FALSE]

\* A faulty variant: the object is created from the base wrapper's own prototype.
BaseAllocate_OwnPrototype(tgt, cls) ==
    [proto |-> cls, objectID |-> 0, super |-> NoObject]

\* Line 1652: Object.create(new.target.prototype)
BaseAllocate(tgt, cls) == [proto |-> tgt, objectID |-> 0, super |-> NoObject]

\* A faulty variant: the token field is not initialized.
InitFields_NoToken(o, c) == [o EXCEPT !.super = c.superRef]

\* The field initializers of a subclass wrapper, run when super() returns.
InitFields(o, c) == [o EXCEPT !.objectID = c.objectID, !.super = c.superRef]

New(t, args) ==
    /\ pc = "idle"
    /\ t \in 2..Len(classes)
    /\ pc' = "running"
    /\ target' = t
    /\ callArgs' = args
    /\ stack' = <<Frame(t, args, "enter")>>
    /\ UNCHANGED <<obj, hookCalls, events, error>>
    /\ UNCHANGED <<classVars, viewVars, callVars>>

\* Lines 1786-1799: the constructor of a subclass wrapper up to super().
EnterSub ==
    /\ pc = "running"
    /\ Top.phase = "enter"
    /\ classes[Top.cls].kind = "sub"
    /\ LET f == Top
           entered == Append(events, Event("enter", f.cls, HasSentinel(f.args)))
       IN IF HasSentinel(f.args)
          THEN /\ stack' = Append(Pop(stack), Frame(f.cls, f.args, "fwd"))
                              \o <<Frame(classes[f.cls].parent, f.args,
                                         "enter")>>
               /\ events' = entered
               /\ UNCHANGED <<pc, error>>
          ELSE IF SubclassGuard(target, f.cls, classes)
          THEN /\ pc' = "failed"
               /\ stack' = <<>>
               /\ error' = [type |-> "UninitializedSubclass", by |-> f.cls]
               /\ events' = Append(entered, Event("throw", f.cls, FALSE))
          ELSE /\ stack' = Append(Pop(stack), Frame(f.cls, f.args, "init"))
                              \o <<Frame(classes[f.cls].parent,
                                         SuperArgs(f.args), "enter")>>
               /\ events' = entered
               /\ UNCHANGED <<pc, error>>
    /\ UNCHANGED <<target, callArgs, obj, hookCalls>>
    /\ UNCHANGED <<classVars, viewVars, callVars>>

\* A user-authored constructor: the default one forwards its arguments to
\* super(); a non-forwarding one passes arguments of its own.
EnterUser ==
    /\ pc = "running"
    /\ Top.phase = "enter"
    /\ classes[Top.cls].kind = "user"
    /\ LET f == Top
           passed == IF classes[f.cls].ctor = "forward" THEN f.args
                     ELSE RewrittenArgs
       IN /\ stack' = Append(Pop(stack), Frame(f.cls, f.args, "user"))
                         \o <<Frame(classes[f.cls].parent, passed, "enter")>>
          /\ events' = Append(events,
                              Event("enter", f.cls, HasSentinel(f.args)))
    /\ UNCHANGED <<pc, target, callArgs, obj, hookCalls, error>>
    /\ UNCHANGED <<classVars, viewVars, callVars>>

\* Lines 1634-1661: the constructor of the base wrapper.
EnterBase ==
    /\ pc = "running"
    /\ Top.phase = "enter"
    /\ classes[Top.cls].kind = "base"
    /\ LET f == Top
           out == BaseCtorOutcome(f.args, target, f.cls, classes)
           entered == Append(events, Event("enter", f.cls, HasSentinel(f.args)))
       IN /\ obj' = IF out.alloc THEN Some(BaseAllocate(target, f.cls))
                    ELSE obj
          /\ IF out.err = "none"
             THEN /\ stack' = Pop(stack)
                  /\ pc' = IF Len(stack) = 1 THEN "done" ELSE pc
                  /\ events' = Append(entered, Event("alloc", f.cls, FALSE))
                  /\ UNCHANGED error
             ELSE /\ pc' = "failed"
                  /\ stack' = <<>>
                  /\ error' = [type |-> out.err, by |-> f.cls]
                  /\ events' = Append(entered, Event("throw", f.cls, FALSE))
    /\ UNCHANGED <<target, callArgs, hookCalls>>
    /\ UNCHANGED <<classVars, viewVars, callVars>>

\* Lines 1788 and 1799-1812: super() has returned into a subclass wrapper.
\* The field initializers run, then the external branch may initialize.
ReturnSub ==
    /\ pc = "running"
    /\ Top.phase \in {"fwd", "init"}
    /\ LET f == Top
           this == InitFields(Val(obj), classes[f.cls])
           init == f.phase = "init" /\ InitGuard(target, f.cls, classes, this)
       IN /\ obj' = Some(this)
          /\ hookCalls' =
                 IF init
                 THEN Append(hookCalls,
                             [by |-> f.cls, self |-> this,
                              args |-> InitArgs(f.args),
                              ran |-> InitObjectOf(classes, this.proto)])
                 ELSE hookCalls
          /\ events' =
                 IF init
                 THEN events \o <<Event("hook", f.cls, FALSE),
                                  Event("return", f.cls, FALSE)>>
                 ELSE Append(events, Event("return", f.cls, FALSE))
    /\ stack' = Pop(stack)
    /\ pc' = IF Len(stack) = 1 THEN "done" ELSE pc
    /\ UNCHANGED <<target, callArgs, error>>
    /\ UNCHANGED <<classVars, viewVars, callVars>>

\* super() has returned into a user-authored constructor.
ReturnUser ==
    /\ pc = "running"
    /\ Top.phase = "user"
    /\ stack' = Pop(stack)
    /\ pc' = IF Len(stack) = 1 THEN "done" ELSE pc
    /\ events' = Append(events, Event("return", Top.cls, FALSE))
    /\ UNCHANGED <<target, callArgs, obj, hookCalls, error>>
    /\ UNCHANGED <<classVars, viewVars, callVars>>

\* The caller has the instance or the exception; the next statement runs.
Reset ==
    /\ pc \in {"done", "failed"}
    /\ pc' = "idle"
    /\ stack' = <<>>
    /\ target' = 0
    /\ callArgs' = <<>>
    /\ obj' = Undef
    /\ hookCalls' = <<>>
    /\ events' = <<>>
    /\ error' = [type |-> "none", by |-> 0]
    /\ UNCHANGED <<classVars, viewVars, callVars>>

(***************************************************************************)
(* Initial state: the existing class handed to spinaBaseClassExtends, with *)
(* two static keyed structures, and the objects of the mixin sources.      *)
(***************************************************************************)
RealBaseClass ==
    [NewClass("real", 0, "real") EXCEPT
        !.statics = [a \in Attrs |-> IF a = "h" THEN 1
                                     ELSE IF a = "g" THEN 2 ELSE 0],
        !.sOwn = {"h", "g"},
        !.decl = [a \in Attrs |-> IF a \in {"h", "g"} THEN Some({"k"})
                                  ELSE Undef]]

InitHeap ==
    <<PlainObject([k \in {"k"} |-> 1]),
      PlainObject([k \in {"k"} |-> 1]),
      PlainObject([k \in {"b"} |-> 9]),
      PlainObject([k \in {"b"} |-> 9]),
      PlainObject([k \in {"b"} |-> 9]),
      PlainObject([k \in {"b"} |-> 9])>>

(***************************************************************************)
(* BaseView.render() (view.ts).  A view has the fields rendered,           *)
(* autoconnectModelEvents and _modelEventsConnected; hasModel tells        *)
(* whether it has a model and modelEvents.  log is what the handlers and   *)
(* the listeners of the view have seen, in order: the handler or event,    *)
(* the number of the render() call, the initialRender of the signal state  *)
(* (events only) and the value of this.rendered they could read.           *)
(* renderFrame is the render() call running, if any: one thread.           *)
(***************************************************************************)
MaxViews == 2
MaxRenders == 3

Views == 1..MaxViews

NewView(autoconnect, hasModel) ==
    [rendered |-> FALSE, autoconnectModelEvents |-> autoconnect,
     modelEventsConnected |-> FALSE, hasModel |-> hasModel,
     calls |-> 0, log |-> <<>>]

NoFrame == [view |-> 0, at |-> "none", initialRender |-> FALSE]

Seen(view, what, signal) ==
    [what |-> what, call |-> view.calls, signal |-> signal,
     rendered |-> view.rendered]

NoSignal == "none"

\* Lines 183-204.
connectModelEvents(view) ==
    IF ~view.modelEventsConnected /\ view.hasModel
    THEN [view EXCEPT !.modelEventsConnected = TRUE]
    ELSE view

\* Lines 412-416, also reached from renderInto (line 381): the call is
\* entered and initialRender is computed.
Render(v) ==
    /\ renderFrame = NoFrame
    /\ pc = "idle"
    /\ views[v].calls < MaxRenders
    /\ views' = [views EXCEPT ![v].calls = @ + 1]
    /\ renderFrame' = [view |-> v, at |-> "rendering",
                       initialRender |-> ~views[v].rendered]
    /\ UNCHANGED <<classVars, ctorVars, callVars>>

\* Line 418: this.trigger('rendering', signalState).
TriggerRendering ==
    /\ renderFrame.at = "rendering"
    /\ views' = [views EXCEPT ![renderFrame.view].log =
                     Append(@, Seen(views[renderFrame.view], "rendering",
                                    renderFrame.initialRender))]
    /\ renderFrame' = [renderFrame EXCEPT !.at =
                           IF renderFrame.initialRender THEN "initial"
                           ELSE "onRender"]
    /\ UNCHANGED <<classVars, ctorVars, callVars>>

\* The view after lines 421-423.
Autoconnect(view) ==
    IF view.autoconnectModelEvents THEN connectModelEvents(view) ELSE view

\* The view when a handler has been called and has returned.
Called(view, what) == [view EXCEPT !.log = Append(@, Seen(view, what, NoSignal))]

\* A faulty variant: rendered is set once onInitialRender has returned.
OnInitialRender_SetsRendered ==
    /\ renderFrame.at = "initial"
    /\ views' = [views EXCEPT ![renderFrame.view] =
                     [Called(Autoconnect(@), "onInitialRender")
                         EXCEPT !.rendered = TRUE]]
    /\ renderFrame' = [renderFrame EXCEPT !.at = "onRender"]
    /\ UNCHANGED <<classVars, ctorVars, callVars>>

\* Lines 420-426: the branch of the initial render.
OnInitialRender ==
    /\ renderFrame.at = "initial"
    /\ views' = [views EXCEPT ![renderFrame.view] =
                     Called(Autoconnect(@), "onInitialRender")]
    /\ renderFrame' = [renderFrame EXCEPT !.at = "onRender"]
    /\ UNCHANGED <<classVars, ctorVars, callVars>>

\* Line 428: this.onRender().
OnRender ==
    /\ renderFrame.at = "onRender"
    /\ views' = [views EXCEPT ![renderFrame.view] = Called(@, "onRender")]
    /\ renderFrame' = [renderFrame EXCEPT !.at = "setRendered"]
    /\ UNCHANGED <<classVars, ctorVars, callVars>>

\* Line 429: this.rendered = true.
SetRendered ==
    /\ renderFrame.at = "setRendered"
    /\ views' = [views EXCEPT ![renderFrame.view].rendered = TRUE]
    /\ renderFrame' = [renderFrame EXCEPT !.at = "rendered"]
    /\ UNCHANGED <<classVars, ctorVars, callVars>>

\* Lines 431-433: this.trigger('rendered', signalState); return this.
TriggerRendered ==
    /\ renderFrame.at = "rendered"
    /\ views' = [views EXCEPT ![renderFrame.view].log =
                     Append(@, Seen(views[renderFrame.view], "rendered",
                                    renderFrame.initialRender))]
    /\ renderFrame' = NoFrame
    /\ UNCHANGED <<classVars, ctorVars, callVars>>

\* The views of the other specifications: none is ever rendered.
InitViews ==
    /\ views = [v \in Views |-> NewView(TRUE, TRUE)]
    /\ renderFrame = NoFrame

InitBelow ==
    /\ heap = InitHeap
    /\ records = <<>>
    /\ spinaClassCount = 0
    /\ lastCall = NoCall
    /\ invoked = <<>>
    /\ pc = "idle"
    /\ stack = <<>>
    /\ target = 0
    /\ callArgs = <<>>
    /\ obj = Undef
    /\ hookCalls = <<>>
    /\ events = <<>>
    /\ error = [type |-> "none", by |-> 0]

InitObjects == classes = <<RealBaseClass>> /\ InitBelow

Init == InitObjects /\ InitViews

(***************************************************************************)
(* The construction specification: chains of classes without declared      *)
(* attributes or options, and every construction on them.                  *)
(***************************************************************************)
CtorKinds == {"forward", "rewrite"}

Next ==
    \/ BaseClassExtends(EmptyOptions)
    \/ \E ctor \in CtorKinds : DefineClass(NoDecl, ctor, MaxClasses)
    \/ SpinaSubclass(EmptyOptions, MaxClasses)
    \/ \E t \in 1..MaxClasses, args \in ArgChoices : New(t, args)
    \/ EnterSub
    \/ EnterUser
    \/ EnterBase
    \/ ReturnSub
    \/ ReturnUser
    \/ Reset

Spec == Init /\ [][Next]_vars

(***************************************************************************)
(* Properties of construction.                                             *)
(***************************************************************************)
\* The classes a construction of t runs through: t, its parent, ... down
\* to the base wrapper.
RECURSIVE ChainDown(_)
ChainDown(t) ==
    IF t = 0 \/ classes[t].kind = "real" THEN <<>>
    ELSE <<t>> \o ChainDown(classes[t].parent)

\* The nearest ancestor-or-self of t that is not a user-authored class.
RECURSIVE NearestWrapper(_)
NearestWrapper(t) ==
    IF classes[t].kind = "user" THEN NearestWrapper(classes[t].parent) ELSE t

\* t is a subclass wrapper, and every user-authored constructor of its
\* chain that does not forward its arguments has a subclass wrapper above
\* the base wrapper to hand the call to.
ProperlyWrapped(t) ==
    /\ classes[t].kind = "sub"
    /\ \A i \in 1..Len(ChainDown(t)) :
           LET c == ChainDown(t)[i] IN
           (classes[c].kind = "user" /\ classes[c].ctor # "forward")
               => classes[NearestWrapper(c)].kind = "sub"

\* C1: constructing a properly wrapped class with arguments A succeeds, and
\* a construction that has succeeded has invoked initObject exactly once,
\* from the requested wrapper, on the returned instance, with exactly A;
\* no other wrapper ever invokes it.
C1_InitExactlyOnce ==
    /\ \A i \in 1..Len(hookCalls) : hookCalls[i].by = target
    /\ pc = "failed" => ~ProperlyWrapped(target)
    /\ pc = "done" =>
           /\ Len(hookCalls) = 1
           /\ hookCalls[1].args = callArgs
           /\ hookCalls[1].self = Val(obj)
           /\ ~HasSentinel(hookCalls[1].args)

C1_Witness ==
    /\ pc = "done"
    /\ callArgs = <<"x", "y">>
    /\ Len(hookCalls) = 1
    /\ Cardinality({c \in Range(ChainDown(target)) :
                        classes[c].kind = "sub"}) >= 2

\* C2: the events of a successful construction are, in this order: the
\* external entry of the requested wrapper, the entries of every ancestor
\* down to the base wrapper (every subclass wrapper passing the sentinel
\* on), the allocation by the base wrapper, the returns of every ancestor
\* constructor in reverse order, and only then initObject; initObject never
\* runs before the allocation and the return of every ancestor constructor.
EventsInOrder(t) ==
    LET chain == ChainDown(t)
        k == Len(chain)
        base == chain[k]
    IN /\ Len(events) = 2 * k + 1
       /\ \A i \in 1..k :
              /\ events[i].e = "enter"
              /\ events[i].cls = chain[i]
              /\ i = 1 => ~events[i].s
              /\ (i > 1 /\ classes[chain[i - 1]].kind = "sub") => events[i].s
       /\ events[k + 1] = Event("alloc", base, FALSE)
       /\ \A j \in 1..(k - 2) :
              events[k + 1 + j] = Event("return", chain[k - j], FALSE)
       /\ events[2 * k] = Event("hook", t, FALSE)
       /\ events[2 * k + 1] = Event("return", t, FALSE)

CountBefore(i, e) ==
    Cardinality({j \in 1..(i - 1) : events[j].e = e})

C2_ConstructionOrder ==
    /\ pc = "done" => EventsInOrder(target)
    /\ \A i \in 1..Len(events) :
           events[i].e = "hook" =>
               /\ CountBefore(i, "alloc") = 1
               /\ CountBefore(i, "return") = CountBefore(i, "enter") - 2

C2_Witness ==
    /\ pc = "done"
    /\ Len(events) >= 11
    /\ \E i \in 2..Len(events) :
           /\ events[i].e = "enter"
           /\ classes[events[i].cls].kind = "sub"
           /\ events[i].s

\* C3: whenever the base wrapper's constructor is entered without the
\* sentinel, the construction fails with AbstractInstantiation raised by
\* the base wrapper; no object exists and no init hook has run.
C3_AbstractInstantiation ==
    \A i \in 1..Len(events) :
        (/\ events[i].e = "enter"
         /\ classes[events[i].cls].kind = "base"
         /\ ~events[i].s)
        => /\ pc = "failed"
           /\ error = [type |-> "AbstractInstantiation", by |-> events[i].cls]
           /\ obj = Undef
           /\ hookCalls = <<>>

C3_Witness ==
    /\ pc = "failed"
    /\ error.type = "AbstractInstantiation"
    /\ classes[target].kind = "sub"
    /\ Len(events) >= 4

\* C4: constructing a class T that extends a subclass wrapper W through
\* user-authored classes only, and was never wrapped itself, fails with
\* UninitializedSubclass raised by W, which was entered without the
\* sentinel; no class above W in the chain is ever entered.
C4_UninitializedSubclass ==
    (/\ pc # "idle"
     /\ classes[target].kind = "user"
     /\ classes[NearestWrapper(target)].kind = "sub")
    => LET W == NearestWrapper(target) IN
       /\ pc # "done"
       /\ \A i \in 1..Len(events) : events[i].cls >= W
       /\ StaticObjectID(classes, target) = classes[W].objectID
       /\ pc = "failed" =>
              /\ error = [type |-> "UninitializedSubclass", by |-> W]
              /\ \E i \in 1..Len(events) :
                     events[i] = Event("enter", W, FALSE)

C4_Witness ==
    /\ pc = "failed"
    /\ error.type = "UninitializedSubclass"
    /\ classes[target].kind = "user"
    /\ classes[classes[target].parent].kind = "user"

\* C5: a construction that has failed with AbstractInstantiation or
\* UninitializedSubclass has allocated no object and invoked no init hook.
C5_NoPartialConstruction ==
    pc = "failed" =>
        /\ error.type \in {"AbstractInstantiation", "UninitializedSubclass"}
        /\ obj = Undef
        /\ hookCalls = <<>>
        /\ \A i \in 1..Len(events) : events[i].e \notin {"alloc", "hook"}

C5_Witness ==
    /\ pc = "failed"
    /\ error.type = "AbstractInstantiation"
    /\ \E i \in 1..Len(events) :
           /\ events[i].e = "enter"
           /\ classes[events[i].cls].kind = "sub"
           /\ events[i].s

Declares(h, g) ==
    [a \in Attrs |-> IF a = "h" THEN h ELSE IF a = "g" THEN g ELSE Undef]

\* What a user-authored class body may declare.
PrepDecls ==
    {NoDecl,
     Declares(Some({"a"}), Undef),
     Declares(Some({"b"}), Undef),
     Declares(Some({"a"}), Some({"a"}))}

\* Options handed to spinaBaseClassExtends.
BaseOptionChoices ==
    {EmptyOptions,
     [EmptyOptions EXCEPT !.automergeAttrs = Some(<<"h">>)],
     [EmptyOptions EXCEPT !.automergeAttrs = Some(<<"h", "g">>)]}

\* Options handed to spinaSubclass.
PrepOptionChoices ==
    {EmptyOptions,
     [EmptyOptions EXCEPT !.automergeAttrs = Some(<<"h">>)],
     [EmptyOptions EXCEPT !.skipParentAutomergeAttrs = SkipList(<<"h">>)],
     [EmptyOptions EXCEPT !.skipParentAutomergeAttrs = SkipAll],
     [EmptyOptions EXCEPT !.automergeAttrs = Some(<<"h">>),
                          !.skipParentAutomergeAttrs = SkipList(<<"h">>)],
     [EmptyOptions EXCEPT !.automergeAttrs = Some(<<"g">>),
                          !.skipParentAutomergeAttrs = SkipAll]}

NextPrep ==
    \/ \E o \in BaseOptionChoices : BaseClassExtends(o)
    \/ \E d \in PrepDecls : DefineClass(d, "forward", MaxPrepClasses)
    \/ \E o \in PrepOptionChoices : SpinaSubclass(o, MaxPrepClasses)

SpecPrep == Init /\ [][NextPrep]_vars

(***************************************************************************)
(* Properties of subclass preparation.                                     *)
(***************************************************************************)
\* The subclass wrappers, the class each one wraps, and that class's parent.
Wrappers == {w \in 1..Len(classes) : classes[w].kind = "sub"}

Wrapped(w) == classes[w].parent

ParentOf(c) == classes[c].parent

\* The options object a wrapper's factory call was given.
GivenOptions(w) == records[classes[w].options]

\* c.__spinaOptions: the reference, and the record it refers to.
RecordRef(c) == SpinaOptionsRef(classes, c)

Record(c) == IF RecordRef(c) = 0 THEN EmptyOptions ELSE records[RecordRef(c)]

ListOf(o) == IF IsDef(o) THEN Range(Val(o)) ELSE {}

\* The keyed structure read as c[x], and the one the body of c declared.
ResolvedMap(c, x) ==
    LET v == StaticGet(classes, c, x) IN IF v = 0 THEN EmptyMap ELSE heap[v].m

DeclMap(c, x) == [k \in Val(classes[c].decl[x]) |-> c]

DeclaresAttr(c, x) == IsDef(classes[c].decl[x])

\* The keys of own and of inherited, a key of both taking own's value.
UnionOwnWins(own, inherited) ==
    [k \in (DOMAIN own) \cup (DOMAIN inherited) |->
        IF k \in DOMAIN own THEN own[k] ELSE inherited[k]]

\* The union of what c and every class above it declared for x, the more
\* derived class winning.
RECURSIVE ChainUnion(_, _)
ChainUnion(c, x) ==
    IF c = 0 THEN EmptyMap
    ELSE IF DeclaresAttr(c, x)
    THEN UnionOwnWins(DeclMap(c, x), ChainUnion(ParentOf(c), x))
    ELSE ChainUnion(ParentOf(c), x)

\* Whether the options of w name x in skipParentAutomergeAttrs, by list or
\* with true.
Skips(w, x) ==
    LET skip == GivenOptions(w).skipParentAutomergeAttrs IN
    \/ skip.k = "true"
    \/ skip.k = "list" /\ \E i \in DOMAIN skip.l : skip.l[i] = x

\* The auto-merged attributes of the parent that w skips.
SkippedBy(w) ==
    {x \in ListOf(Record(ParentOf(Wrapped(w))).automergeAttrs) : Skips(w, x)}

\* x is auto-merged when w is made: it is listed by w's own options, or by
\* the record of the wrapped class's parent and not skipped.
AutoMergedAt(w, x) ==
    \/ x \in ListOf(GivenOptions(w).automergeAttrs)
    \/ /\ x \in ListOf(Record(ParentOf(Wrapped(w))).automergeAttrs)
       /\ ~Skips(w, x)

\* Every class from c up to the root that declares x was wrapped with x
\* auto-merged.
RECURSIVE MergingChain(_, _)
MergingChain(c, x) ==
    IF c = 0 \/ classes[c].kind = "real" THEN TRUE
    ELSE /\ (classes[c].kind = "user" /\ DeclaresAttr(c, x))
                => \E w \in Wrappers : Wrapped(w) = c /\ AutoMergedAt(w, x)
         /\ MergingChain(ParentOf(c), x)

\* C7 as claimed: a subclass wrapped with no options has the very same
\* configuration record object as its parent, whatever the parent's record.
C7_Original_SameRecord ==
    \A w \in Wrappers :
        OptionsIsEmpty(GivenOptions(w))
            => RecordRef(w) = RecordRef(ParentOf(Wrapped(w)))

\* C7 as amended: a subclass wrapped with no options has the very same
\* configuration record object as its parent when the parent's record is
\* not empty; when the parent's record is empty, its record is the empty
\* options object of its own factory call: equal to the parent's, but
\* another object.
C7_SameRecordUnlessParentEmpty ==
    \A w \in Wrappers :
        OptionsIsEmpty(GivenOptions(w)) =>
            LET pr == RecordRef(ParentOf(Wrapped(w))) IN
            IF pr # 0 /\ ~OptionsIsEmpty(records[pr])
            THEN RecordRef(w) = pr
            ELSE /\ RecordRef(w) = classes[w].options
                 /\ RecordRef(w) # pr
                 /\ Record(w) = Record(ParentOf(Wrapped(w)))

C7_Witness ==
    \E w \in Wrappers :
        /\ OptionsIsEmpty(GivenOptions(w))
        /\ RecordRef(w) = RecordRef(ParentOf(Wrapped(w)))
        /\ IsDef(Record(w).automergeAttrs)
        /\ DeclaresAttr(Wrapped(w), "h")
        /\ classes[ParentOf(Wrapped(w))].kind = "sub"

\* C8 as claimed: where x is auto-merged and the wrapped class declares its
\* own keyed structure, the resolved value is the union of the keys declared
\* by that class and by every class above it up to the root of the chain,
\* the more derived class winning.
C8_Original_UnionOfChain ==
    \A w \in Wrappers : \A x \in Attrs :
        (AutoMergedAt(w, x) /\ DeclaresAttr(Wrapped(w), x))
            => ResolvedMap(Wrapped(w), x) = ChainUnion(Wrapped(w), x)

\* C8 as amended: where x is auto-merged and the wrapped class declares its
\* own keyed structure, the resolved value is the union of the declared
\* keys and the keys of the parent's resolved value, declared keys winning;
\* it is the union over the whole chain when every class above that
\* declares x was itself wrapped with x auto-merged.  A class wrapped with
\* no options merges like any other.
C8_MergeWithParentResolved ==
    \A w \in Wrappers : \A x \in Attrs :
        (AutoMergedAt(w, x) /\ DeclaresAttr(Wrapped(w), x)) =>
            /\ ResolvedMap(Wrapped(w), x) =
                   UnionOwnWins(DeclMap(Wrapped(w), x),
                                ResolvedMap(ParentOf(Wrapped(w)), x))
            /\ ResolvedMap(w, x) = ResolvedMap(Wrapped(w), x)
            /\ MergingChain(Wrapped(w), x) =>
                   ResolvedMap(Wrapped(w), x) = ChainUnion(Wrapped(w), x)

C8_Witness ==
    \E w \in Wrappers :
        /\ OptionsIsEmpty(GivenOptions(w))
        /\ AutoMergedAt(w, "h")
        /\ MergingChain(Wrapped(w), "h")
        /\ DeclaresAttr(Wrapped(w), "h")
        /\ DOMAIN DeclMap(Wrapped(w), "h") = {"b"}
        /\ DOMAIN ResolvedMap(Wrapped(w), "h") = {"k", "a", "b"}

\* C9 as claimed: a subclass whose options skip the parent's auto-merged
\* attribute x (by list or with true) and that declares x resolves x to its
\* declared value only, whatever its other options; with a skip list, the
\* parent's auto-merged attributes not in the list are still merged.
C9_Original_SkipKeepsOwnValue ==
    \A w \in Wrappers : \A x \in Attrs :
        /\ (x \in SkippedBy(w) /\ DeclaresAttr(Wrapped(w), x))
               => ResolvedMap(Wrapped(w), x) = DeclMap(Wrapped(w), x)
        /\ (/\ GivenOptions(w).skipParentAutomergeAttrs.k = "list"
            /\ ~Skips(w, x)
            /\ x \in ListOf(Record(ParentOf(Wrapped(w))).automergeAttrs)
            /\ DeclaresAttr(Wrapped(w), x))
               => ResolvedMap(Wrapped(w), x) =
                      UnionOwnWins(DeclMap(Wrapped(w), x),
                                   ResolvedMap(ParentOf(Wrapped(w)), x))

\* No wrapper from w down to w2 lists x in its own automergeAttrs.
NotListedAgain(w, w2, x) ==
    \A v \in Wrappers :
        (w <= v /\ v <= w2) => x \notin ListOf(GivenOptions(v).automergeAttrs)

\* C10 as claimed: a name of the parent's record that a subclass skips is
\* not in the automergeAttrs of the subclass's record, with skip = true the
\* record has no automergeAttrs at all, and descendants do not auto-merge
\* the name unless they list it.
C10_Original_SkippedRemoved ==
    \A w \in Wrappers :
        /\ \A x \in SkippedBy(w) :
               x \notin ListOf(Record(Wrapped(w)).automergeAttrs)
        /\ GivenOptions(w).skipParentAutomergeAttrs.k = "true"
               => ~IsDef(Record(Wrapped(w)).automergeAttrs)

\* C10 as amended: the automergeAttrs of a subclass's record holds the
\* names of its parent's record that the subclass does not skip and the
\* names the subclass lists itself, so a skipped name is in it only if the
\* subclass lists that name itself; with skip = true it is exactly the
\* subclass's own automergeAttrs (no field when its options have none); a
\* descendant does not auto-merge a name removed in this way, and keeps its
\* declared value, unless the name is listed again.
C10_SkippedRemovedUnlessListed ==
    \A w \in Wrappers :
        /\ ListOf(Record(Wrapped(w)).automergeAttrs) =
               (ListOf(Record(ParentOf(Wrapped(w))).automergeAttrs)
                    \ SkippedBy(w))
               \cup ListOf(GivenOptions(w).automergeAttrs)
        /\ \A x \in SkippedBy(w) :
               x \notin ListOf(GivenOptions(w).automergeAttrs)
                   => x \notin ListOf(Record(Wrapped(w)).automergeAttrs)
        /\ GivenOptions(w).skipParentAutomergeAttrs.k = "true"
               => Record(Wrapped(w)).automergeAttrs =
                      GivenOptions(w).automergeAttrs
        /\ \A w2 \in Wrappers : \A x \in SkippedBy(w) :
               (w <= w2 /\ NotListedAgain(w, w2, x)) =>
                   /\ x \notin ListOf(Record(Wrapped(w2)).automergeAttrs)
                   /\ ~AutoMergedAt(w2, x)
                   /\ DeclaresAttr(Wrapped(w2), x) =>
                          ResolvedMap(Wrapped(w2), x) = DeclMap(Wrapped(w2), x)

C10_Witness ==
    \E w \in Wrappers : \E w2 \in Wrappers :
        /\ w < w2
        /\ GivenOptions(w).skipParentAutomergeAttrs.k = "list"
        /\ "h" \in ListOf(Record(ParentOf(Wrapped(w))).automergeAttrs)
        /\ Record(Wrapped(w)).automergeAttrs = Some(<<"g">>)
        /\ NotListedAgain(w, w2, "h")
        /\ DeclaresAttr(Wrapped(w2), "h")
        /\ DeclaresAttr(Wrapped(w), "h")

(***************************************************************************)
(* Propagation of the automergeAttrs list.                                 *)
(***************************************************************************)
\* The list of an optional list field; no list when the field is absent.
SeqOf(o) == IF IsDef(o) THEN Val(o) ELSE <<>>

NoDuplicates(s) == \A i, j \in DOMAIN s : i # j => s[i] # s[j]

\* The names of the parent's record that w does not skip, in the parent's
\* order.
KeptFromParent(w) ==
    SelectSeq(SeqOf(Record(ParentOf(Wrapped(w))).automergeAttrs),
              LAMBDA x : ~Skips(w, x))

\* The names of w's own automergeAttrs that are not kept from the parent.
NewlyDeclared(w) ==
    SelectSeq(SeqOf(GivenOptions(w).automergeAttrs),
              LAMBDA x : \A i \in DOMAIN KeptFromParent(w) :
                             KeptFromParent(w)[i] # x)

\* C11 as claimed: the automergeAttrs of a class's record is the parent's
\* list without the names the class skips, in the parent's order, followed
\* by the names the class newly declares, and holds no name twice.
C11_Original_PropagatesAsSet ==
    \A w \in Wrappers :
        LET list == SeqOf(Record(Wrapped(w)).automergeAttrs) IN
        /\ NoDuplicates(list)
        /\ list = KeptFromParent(w) \o NewlyDeclared(w)

(***************************************************************************)
(* The prototypeAttrs specification: every class is wrapped, each with a   *)
(* prototypeAttrs list of its own or none, and declares static values.     *)
(***************************************************************************)
MaxProtoClasses == 8

\* A class body declaring a static value for each name of S.
DeclaresOnly(S) == [a \in Attrs |-> IF a \in S THEN Some({"a"}) ELSE Undef]

ProtoDecls == {DeclaresOnly({}), DeclaresOnly({"h"}), DeclaresOnly({"g"}),
               DeclaresOnly({"n"}), DeclaresOnly({"h", "n"})}

ProtoBaseOptionChoices ==
    {EmptyOptions, [EmptyOptions EXCEPT !.prototypeAttrs = Some(<<"h">>)]}

ProtoOptionChoices ==
    {EmptyOptions,
     [EmptyOptions EXCEPT !.prototypeAttrs = Some(<<>>)],
     [EmptyOptions EXCEPT !.prototypeAttrs = Some(<<"h">>)],
     [EmptyOptions EXCEPT !.prototypeAttrs = Some(<<"g">>)],
     [EmptyOptions EXCEPT !.prototypeAttrs = Some(<<"n">>)]}

NextProto ==
    \/ \E o \in ProtoBaseOptionChoices : BaseClassExtends(o)
    \/ \E d \in ProtoDecls :
           /\ Last(classes).kind # "user"
           /\ DefineClass(d, "forward", MaxProtoClasses)
    \/ \E o \in ProtoOptionChoices : SpinaSubclass(o, MaxProtoClasses)

SpecProto == Init /\ [][NextProto]_vars

(***************************************************************************)
(* Propagation of the prototypeAttrs list.                                 *)
(***************************************************************************)
\* s without the later occurrences of a name.
RECURSIVE Dedup(_)
Dedup(s) ==
    IF s = <<>> THEN <<>>
    ELSE LET d == Dedup(SubSeq(s, 1, Len(s) - 1))
         IN IF \E i \in DOMAIN d : d[i] = Last(s) THEN d
            ELSE Append(d, Last(s))

\* C12 as claimed: the prototypeAttrs of a class's record is the list of
\* its parent's record followed by the class's own list, deduplicated by
\* first occurrence, for every combination of the two lists.
C12_Original_Accumulates ==
    \A w \in Wrappers :
        SeqOf(Record(Wrapped(w)).prototypeAttrs) =
            Dedup(SeqOf(Record(ParentOf(Wrapped(w))).prototypeAttrs)
                      \o SeqOf(GivenOptions(w).prototypeAttrs))

(***************************************************************************)
(* Promotion of static attributes onto the prototype.                      *)
(***************************************************************************)
\* w adds one name to prototypeAttrs, a name its parent's record does not
\* list, and the wrapped class declares a static value for it.
AddsOne(w) ==
    LET own == SeqOf(GivenOptions(w).prototypeAttrs)
        inherited == SeqOf(Record(ParentOf(Wrapped(w))).prototypeAttrs)
    IN /\ Len(own) = 1
       /\ \A i \in DOMAIN inherited : inherited[i] # own[1]
       /\ DeclaresAttr(Wrapped(w), own[1])

Added(w) == SeqOf(GivenOptions(w).prototypeAttrs)[1]

\* Three consecutive levels, each adding one name.
ThreeLevels(w1, w2, w3) ==
    /\ ParentOf(Wrapped(w2)) = w1
    /\ ParentOf(Wrapped(w3)) = w2
    /\ AddsOne(w1) /\ AddsOne(w2) /\ AddsOne(w3)

\* The most-derived of the classes wrapped at the three levels that
\* declares x.
MostDerivedDeclaring(w1, w2, w3, x) ==
    IF DeclaresAttr(Wrapped(w3), x) THEN Wrapped(w3)
    ELSE IF DeclaresAttr(Wrapped(w2), x) THEN Wrapped(w2)
    ELSE Wrapped(w1)

\* C13: in a three-level chain where each level adds one name to
\* prototypeAttrs and declares a static value for it, each of the three
\* names read through the prototype of the most-derived class is defined
\* and is the static value declared by the most-derived level declaring it.
C13_PromotedOnMostDerived ==
    \A w1, w2, w3 \in Wrappers :
        ThreeLevels(w1, w2, w3) =>
            \A x \in {Added(w1), Added(w2), Added(w3)} :
                /\ ProtoGet(classes, w3, x) # 0
                /\ ProtoGet(classes, w3, x) =
                       classes[MostDerivedDeclaring(w1, w2, w3, x)].statics[x]

C13_Witness ==
    \E w1, w2, w3 \in Wrappers :
        /\ ThreeLevels(w1, w2, w3)
        /\ Added(w1) = "h"
        /\ DeclaresAttr(Wrapped(w3), "h")
        /\ ProtoGet(classes, w3, "h") = classes[Wrapped(w3)].statics["h"]
        /\ ProtoGet(classes, w3, "h") # classes[Wrapped(w1)].statics["h"]
        /\ ProtoGet(classes, w3, "g") = classes[Wrapped(w2)].statics["g"]

(***************************************************************************)
(* The mixin specification: classes prepared with a mixins option and      *)
(* direct calls of applyMixins on them.                                    *)
(***************************************************************************)
MaxMixinClasses == 3
MaxMixinCount == 3

MixinLists == {<<1>>, <<2>>, <<3>>, <<1, 2>>, <<2, 1>>, <<1, 3>>, <<3, 1>>}

MixinOptionChoices ==
    {EmptyOptions,
     [EmptyOptions EXCEPT !.mixins = Some(<<1, 2>>)],
     [EmptyOptions EXCEPT !.mixins = Some(<<3, 1>>)]}

NextMixin ==
    \/ BaseClassExtends(EmptyOptions)
    \/ DefineClass(NoDecl, "forward", MaxMixinClasses)
    \/ \E o \in MixinOptionChoices :
           /\ spinaClassCount < MaxMixinCount
           /\ SpinaSubclass(o, MaxMixinClasses + 1)
    \/ \E tgt \in 2..MaxMixinClasses, ms \in MixinLists : ApplyMixins(tgt, ms)

SpecMixin == Init /\ [][NextMixin]_vars

\* The calls that apply a list of mixins to a class that is still there.
MixinCall ==
    /\ lastCall.op \in {"applyMixins", "spinaSubclass"}
    /\ lastCall.mixins # <<>>

\* The members a mixin source offers to the instance-facing surface.
Members(m) == {MixinTable[m].body[i].name : i \in DOMAIN MixinTable[m].body}

MemberValue(m, name) ==
    LET i == CHOOSE i \in DOMAIN MixinTable[m].body :
                 MixinTable[m].body[i].name = name
    IN MixinTable[m].body[i].value

\* The static members a class-shaped source offers, its prototype aside.
StaticMembers(m) ==
    {MixinTable[m].statics[i].name : i \in DOMAIN MixinTable[m].statics}
        \ {"prototype"}

StaticMemberValue(m, name) ==
    LET i == CHOOSE i \in DOMAIN MixinTable[m].statics :
                 MixinTable[m].statics[i].name = name
    IN MixinTable[m].statics[i].value

\* The position of the last mixin of the list that defines the name; 0 if
\* none does.
LastDefining(ms, name) ==
    LET S == {i \in DOMAIN ms : name \in Members(ms[i])}
    IN IF S = {} THEN 0 ELSE CHOOSE i \in S : \A j \in S : j <= i

\* C14 (as stated): a call that applies mixins raises no error, and after it
\* every member name defined by some mixin of the list is an own member of
\* the target's prototype holding the definition of the last mixin that
\* defines it, whatever the target held before.
C14_Original_LastWriterWins ==
    MixinCall =>
        /\ ~lastCall.thrown
        /\ \A name \in Attrs :
               LastDefining(lastCall.mixins, name) # 0 =>
                   /\ name \in classes[lastCall.target].pOwn
                   /\ classes[lastCall.target].proto[name] =
                          MemberValue(
                              lastCall.mixins[LastDefining(lastCall.mixins,
                                                           name)], name)

\* The classes among the mixins of a list.
ClassSources(ms) == {i \in DOMAIN ms : MixinTable[ms[i]].isClass}

\* The position of the last class of the list with the static member.
LastStaticDefining(ms, name) ==
    LET S == {i \in ClassSources(ms) : name \in StaticMembers(ms[i])}
    IN IF S = {} THEN 0 ELSE CHOOSE i \in S : \A j \in S : j <= i

\* What a call did to its target: the class before and after.
TargetBefore == lastCall.before[lastCall.target]
TargetAfter == classes[lastCall.target]

\* C15: applyMixins copies by kind of source.  A call listing only plain
\* objects leaves the static surface of the target as it was; the static
\* surface changes only in static members of the listed classes, never in
\* 'prototype', and the prototype changes only in members of the listed
\* sources; when the call returns, every member of every listed source is
\* an own member of the target's prototype and every static member of every
\* listed class is an own static member of the target, with the value of
\* the last class that has it.
C15_CopiesByKind ==
    MixinCall =>
        /\ ClassSources(lastCall.mixins) = {} =>
               /\ TargetAfter.statics = TargetBefore.statics
               /\ TargetAfter.sOwn = TargetBefore.sOwn
               /\ TargetAfter.sFixed = TargetBefore.sFixed
        /\ "prototype" \notin TargetAfter.sOwn
        /\ \A name \in Attrs :
               \/ /\ TargetAfter.statics[name] = TargetBefore.statics[name]
                  /\ name \in TargetAfter.sOwn <=> name \in TargetBefore.sOwn
               \/ LastStaticDefining(lastCall.mixins, name) # 0
        /\ \A name \in Attrs :
               \/ /\ TargetAfter.proto[name] = TargetBefore.proto[name]
                  /\ name \in TargetAfter.pOwn <=> name \in TargetBefore.pOwn
               \/ LastDefining(lastCall.mixins, name) # 0
        /\ ~lastCall.thrown =>
               \A name \in Attrs :
                   /\ LastDefining(lastCall.mixins, name) # 0 =>
                          name \in TargetAfter.pOwn
                   /\ LastStaticDefining(lastCall.mixins, name) # 0 =>
                          /\ name \in TargetAfter.sOwn
                          /\ TargetAfter.statics[name] =
                                 StaticMemberValue(
                                     lastCall.mixins[LastStaticDefining(
                                         lastCall.mixins, name)], name)

\* A direct call listing a plain object and then a class has returned, on a
\* target that had the member of an earlier mixin and no static member.
C15_Witness ==
    /\ lastCall.op = "applyMixins"
    /\ lastCall.mixins = <<1, 2>>
    /\ ~lastCall.thrown
    /\ TargetBefore.statics["g"] = 0
    /\ TargetBefore.proto["h"] = 3
    /\ TargetAfter.statics["g"] = 5
    /\ TargetAfter.proto["h"] = 4

(***************************************************************************)
(* The extension specification: classes made by spinaBaseClassExtends,     *)
(* spinaSubclass and extend, some of the calls throwing, and every         *)
(* construction on them.                                                   *)
(***************************************************************************)
MaxExtendClasses == 6
MaxExtendCount == 4

ExtendOptionChoices ==
    {EmptyOptions,
     [EmptyOptions EXCEPT !.mixins = Some(<<3, 1>>)]}

ProtoPropChoices == {NoAttrs, [NoAttrs EXCEPT !["n"] = 3]}

StaticPropChoices == {NoDecl, DeclaresOnly({"g"})}

NextExtend ==
    \/ BaseClassExtends(EmptyOptions)
    \/ DefineClass(NoDecl, "forward", MaxExtendClasses)
    \/ \E o \in ExtendOptionChoices :
           /\ spinaClassCount < MaxExtendCount
           /\ SpinaSubclass(o, MaxExtendClasses)
    \/ \E P \in 2..MaxExtendClasses, pp \in ProtoPropChoices,
          sp \in StaticPropChoices, o \in ExtendOptionChoices :
           /\ spinaClassCount < MaxExtendCount
           /\ Extend(P, pp, sp, o, MaxExtendClasses)
    \/ \E t \in 1..MaxExtendClasses : New(t, <<"x">>)
    \/ EnterSub
    \/ EnterUser
    \/ EnterBase
    \/ ReturnSub
    \/ ReturnUser
    \/ Reset

SpecExtend == Init /\ [][NextExtend]_vars

\* The classes the factories have produced: base and subclass wrappers.
Produced == {c \in 1..Len(classes) : classes[c].kind \in {"base", "sub"}}

\* The classes the last call added.
AddedByCall == (Len(lastCall.before) + 1)..Len(classes)

\* C16: identity tokens are unique and strictly increasing in creation
\* order.  Every produced wrapper has a token between 1 and the counter; of
\* two wrappers the one created later has the larger token; a subclass
\* wrapper's token differs from the token its wrapped class shows; and a
\* call never lowers the counter and gives the wrapper it produces a token
\* above every value the counter had, also after calls that threw.
C16_TokensUniqueIncreasing ==
    /\ \A c \in Produced : classes[c].objectID \in 1..spinaClassCount
    /\ \A c, d \in Produced :
           c < d => classes[c].objectID < classes[d].objectID
    /\ \A c \in Produced :
           classes[c].kind = "sub" =>
               classes[c].objectID #
                   StaticObjectID(classes, classes[c].parent)
    /\ spinaClassCount >= lastCall.countBefore
    /\ \A c \in AddedByCall \cap Produced :
           classes[c].objectID > lastCall.countBefore

\* Three wrappers exist, the last made by extend after a call that threw
\* had taken a token.
C16_Witness ==
    /\ Cardinality(Produced) >= 3
    /\ lastCall.op = "extend"
    /\ ~lastCall.thrown
    /\ spinaClassCount > Cardinality(Produced)
    /\ classes[Len(classes)].objectID = spinaClassCount

\* C17 (as stated): every produced wrapper shows its token on its prototype
\* too, with the value the class has.
C17_Original_TokenOnPrototype ==
    \A c \in Produced : ProtoObjectID(classes, c) = classes[c].objectID

\* C17 (amended): every produced wrapper has its token as an own static
\* property; its prototype shows no token, own or inherited; the second
\* copy is an own field of every constructed instance, holding the token of
\* the wrapper that was constructed.
C17_TokenOnClassAndInstance ==
    /\ \A c \in Produced :
           /\ classes[c].objectID # 0
           /\ StaticObjectID(classes, c) = classes[c].objectID
           /\ ProtoObjectID(classes, c) = 0
    /\ pc = "done" =>
           /\ target \in Produced
           /\ Val(obj).objectID = classes[target].objectID

\* An instance of a wrapper made by extend on another subclass wrapper has
\* been constructed: two wrappers initialized the field in turn.
C17_Witness ==
    /\ pc = "done"
    /\ classes[classes[target].parent].anon
    /\ Cardinality({c \in Range(ChainDown(target)) :
                        classes[c].kind = "sub"}) >= 2
    /\ Val(obj).objectID = classes[target].objectID

\* The subclass wrappers.
SubWrappers == {c \in 1..Len(classes) : classes[c].kind = "sub"}

\* The class that the class wrapped by wrapper c extends.
GrandParent(c) == classes[classes[c].parent].parent

\* C18 (as stated): the __super__ of a subclass wrapper is the prototype of
\* the immediate parent of the wrapped class.
C18_Original_SuperIsPrototype ==
    \A c \in SubWrappers :
        classes[c].superRef = PrototypeObject(GrandParent(c))

\* C18 (amended): the __super__ of a subclass wrapper is the class that the
\* wrapped class extends, the class object itself and not its prototype; it
\* is the parentProto that the preparation of the wrapped class returned,
\* and every instance constructed through the wrapper carries it.
C18_SuperIsParentClass ==
    /\ \A c \in SubWrappers :
           classes[c].superRef = ClassObject(GrandParent(c))
    /\ pc = "done" => Val(obj).super = ClassObject(GrandParent(target))

\* An instance of a wrapper around a class that extends another subclass
\* wrapper has been constructed.
C18_Witness ==
    /\ pc = "done"
    /\ classes[GrandParent(target)].kind = "sub"
    /\ Val(obj).super = ClassObject(GrandParent(target))

\* The wrappers made by extend: subclass wrappers around the class
\* expression of an extend call.
ExtendResults == {c \in SubWrappers : classes[classes[c].parent].anon}

\* The tokens of the classes that existed before the last call.
TokensBefore ==
    {lastCall.before[c].objectID : c \in 1..Len(lastCall.before)}

\* C19: a call P.extend(instanceProps, staticProps, subclassOptions) that
\* has returned has added two classes: a class extending P that has the
\* given instance properties on its prototype and the given static
\* properties as own properties, and a subclass wrapper around it, whose
\* token is new; and constructing a wrapper made by extend never fails, and
\* when done has invoked initObject once, from that wrapper, on an instance
\* of that wrapper, also when P is a class that was never wrapped.
C19_ExtendWraps ==
    /\ (lastCall.op = "extend" /\ ~lastCall.thrown) =>
           LET W == Len(classes)
               X == Len(classes) - 1
           IN /\ Len(classes) = Len(lastCall.before) + 2
              /\ classes[W].kind = "sub"
              /\ classes[W].parent = X
              /\ classes[X].kind = "user"
              /\ classes[X].parent = lastCall.target
              /\ classes[X].proto = lastCall.protoProps
              /\ classes[X].pOwn =
                     {a \in Attrs : lastCall.protoProps[a] # 0}
              /\ classes[X].sOwn =
                     {a \in Attrs : IsDef(lastCall.staticProps[a])}
              /\ \A a \in classes[X].sOwn :
                     Val(lastCall.staticProps[a]) \subseteq
                         DOMAIN heap[classes[X].statics[a]].m
              /\ classes[W].objectID = spinaClassCount
              /\ classes[W].objectID > lastCall.countBefore
              /\ classes[W].objectID \notin TokensBefore
    /\ (pc # "idle" /\ target \in ExtendResults) =>
           /\ pc # "failed"
           /\ Len(hookCalls) <= 1
           /\ pc = "done" =>
                  /\ Len(hookCalls) = 1
                  /\ hookCalls[1].by = target
                  /\ hookCalls[1].self = Val(obj)
                  /\ Val(obj).proto = target

\* A wrapper that extend made from a class which extends the base wrapper
\* and was never wrapped, with instance and static properties given, has
\* been constructed.
C19_Witness ==
    /\ pc = "done"
    /\ target \in ExtendResults
    /\ Len(hookCalls) = 1
    /\ classes[GrandParent(target)].kind = "user"
    /\ classes[classes[GrandParent(target)].parent].kind = "base"
    /\ classes[classes[target].parent].pOwn = {"n"}
    /\ classes[classes[target].parent].sOwn = {"g"}

(***************************************************************************)
(* The rendering specification: views constructed with either setting of   *)
(* autoconnectModelEvents, with and without a model, and render() calls on *)
(* them one after the other.                                               *)
(***************************************************************************)
InitRender ==
    /\ InitObjects
    /\ views \in [Views -> {NewView(a, m) : a, m \in BOOLEAN}]
    /\ renderFrame = NoFrame

NextRender ==
    \/ \E v \in Views : Render(v)
    \/ TriggerRendering
    \/ OnInitialRender
    \/ OnRender
    \/ SetRendered
    \/ TriggerRendered

SpecRender == InitRender /\ [][NextRender]_vars

\* What the handlers and listeners see in the render() call number k: the
\* first call is the initial render, and this.rendered reads true only
\* from its 'rendered' event on.
ExpectedCall(k) ==
    IF k = 1
    THEN <<[what |-> "rendering", call |-> 1, signal |-> TRUE,
            rendered |-> FALSE],
           [what |-> "onInitialRender", call |-> 1, signal |-> NoSignal,
            rendered |-> FALSE],
           [what |-> "onRender", call |-> 1, signal |-> NoSignal,
            rendered |-> FALSE],
           [what |-> "rendered", call |-> 1, signal |-> TRUE,
            rendered |-> TRUE]>>
    ELSE <<[what |-> "rendering", call |-> k, signal |-> FALSE,
            rendered |-> TRUE],
           [what |-> "onRender", call |-> k, signal |-> NoSignal,
            rendered |-> TRUE],
           [what |-> "rendered", call |-> k, signal |-> FALSE,
            rendered |-> TRUE]>>

RECURSIVE ExpectedLog(_)
ExpectedLog(k) ==
    IF k = 0 THEN <<>> ELSE ExpectedLog(k - 1) \o ExpectedCall(k)

IsPrefix(s, t) == Len(s) <= Len(t) /\ SubSeq(t, 1, Len(s)) = s

RenderingOn(v) == renderFrame.view = v

NeverWrapped(t) ==
    /\ classes[t].kind = "user"
    /\ classes[NearestWrapper(t)].kind = "base"
    /\ StaticObjectID(classes, t) = classes[NearestWrapper(t)].objectID

\* C21 (as stated): when the construction of a target that was never
\* wrapped has reached the base wrapper and failed there, the error is
\* UninitializedSubclass, not AbstractInstantiation.
C21_Original_BaseRaisesUninitialized ==
    (/\ pc = "failed"
     /\ NeverWrapped(target)
     /\ error.by = NearestWrapper(target))
    => error.type = "UninitializedSubclass"

(***************************************************************************)
(* Skipped names and the record.                                           *)
(***************************************************************************)
\* C22 (as stated): a name of the parent's record that a subclass skips is
\* not merged, and it stays in the automergeAttrs of the subclass's record.
C22_Original_SkippedStillRecorded ==
    \A w \in Wrappers : \A x \in SkippedBy(w) :
        x \in ListOf(Record(Wrapped(w)).automergeAttrs)

\* The wrappers whose wrapped class extends wrapper w directly.
ChildWrappers(w) == {v \in Wrappers : ParentOf(Wrapped(v)) = w}

\* C22 (amended): a name of the parent's record that a subclass skips is
\* not handed to the merge by the parent loop and is not recorded among the
\* seen parent names: it is in the automergeAttrs of the subclass's record
\* exactly when the subclass lists it itself; when it does not, the
\* subclass keeps the value it declares, and a child that neither skips nor
\* lists the name does not auto-merge it either.
C22_SkippedNotRecorded ==
    \A w \in Wrappers : \A x \in SkippedBy(w) :
        /\ x \in ListOf(Record(Wrapped(w)).automergeAttrs)
               <=> x \in ListOf(GivenOptions(w).automergeAttrs)
        /\ x \notin ListOf(GivenOptions(w).automergeAttrs) =>
               /\ \A i \in DOMAIN SeqOf(Record(Wrapped(w)).automergeAttrs) :
                      SeqOf(Record(Wrapped(w)).automergeAttrs)[i] # x
               /\ DeclaresAttr(Wrapped(w), x) =>
                      ResolvedMap(Wrapped(w), x) = DeclMap(Wrapped(w), x)
               /\ \A v \in ChildWrappers(w) :
                      (/\ ~Skips(v, x)
                       /\ x \notin ListOf(GivenOptions(v).automergeAttrs))
                      => /\ x \notin ListOf(Record(Wrapped(v)).automergeAttrs)
                         /\ DeclaresAttr(Wrapped(v), x) =>
                                ResolvedMap(Wrapped(v), x) =
                                    DeclMap(Wrapped(v), x)

\* A subclass skips h by name, declares h and does not list it; a child
\* wrapped without options declares h too.
C22_Witness ==
    \E w \in Wrappers : \E v \in ChildWrappers(w) :
        /\ "h" \in SkippedBy(w)
        /\ GivenOptions(w).skipParentAutomergeAttrs.k = "list"
        /\ "h" \notin ListOf(GivenOptions(w).automergeAttrs)
        /\ DeclaresAttr(Wrapped(w), "h")
        /\ OptionsIsEmpty(GivenOptions(v))
        /\ DeclaresAttr(Wrapped(v), "h")

(***************************************************************************)
(* The merge specification: classes that declare one attribute with a      *)
(* value of some shape, on the class or on the prototype, wrapped with     *)
(* automerging of "h" and "n" inherited from the base wrapper, and calls   *)
(* of the callables the attributes hold.                                   *)
(***************************************************************************)
MaxMergeClasses == 6
MaxInvocations == 2

Shaped(attr, where, value) == [attr |-> attr, where |-> where, value |-> value]

\* What a user-authored class may declare.
MergeDecls ==
    {Shaped("h", "static", PlainObject([k \in {"a"} |-> 7])),
     Shaped("h", "static", PlainObject(EmptyMap)),
     Shaped("h", "static", ArrayValue([k \in {"0"} |-> 7])),
     Shaped("h", "static", StringValue([k \in {"0"} |-> 7])),
     Shaped("h", "static", UserFunction([k \in {"a"} |-> 5], "arg")),
     Shaped("h", "proto", PlainObject([k \in {"a"} |-> 8])),
     Shaped("h", "proto", UserFunction([k \in {"a"} |-> 6], "this")),
     Shaped("n", "static", PlainObject([k \in {"a"} |-> 7]))}

MergeBaseOptionChoices ==
    {[EmptyOptions EXCEPT !.automergeAttrs = Some(<<"h", "n">>)]}

MergeOptionChoices ==
    {EmptyOptions,
     [EmptyOptions EXCEPT !.automergeAttrs = Some(<<"h">>)],
     [EmptyOptions EXCEPT !.prototypeAttrs = Some(<<"h">>)],
     [EmptyOptions EXCEPT !.mixins = Some(<<1>>)]}

MergeProtoPropChoices == {[NoAttrs EXCEPT !["h"] = 4]}

\* The receiver and the argument of a call.
InvokeInputs == {<<"r1", "x">>, <<"r2", "y">>}

NextMerge ==
    \/ \E o \in MergeBaseOptionChoices : BaseClassExtends(o)
    \/ \E d \in MergeDecls : DeclareClass(d, MaxMergeClasses)
    \/ \E o \in MergeOptionChoices : SpinaSubclass(o, MaxMergeClasses)
    \/ \E pp \in MergeProtoPropChoices :
           Extend(Len(classes), pp, NoDecl, EmptyOptions, MaxMergeClasses)
    \/ \E i \in InvokeInputs :
           /\ Last(classes).kind = "sub"
           /\ Invoke(Len(classes), "h", "class", i[1], i[2], MaxInvocations)

SpecMerge == Init /\ [][NextMerge]_vars

(***************************************************************************)
(* The merge claims, stated over the last returning spinaSubclass call:    *)
(* the class it prepared and the values it found.                          *)
(***************************************************************************)
Prepared == lastCall.op = "spinaSubclass" /\ ~lastCall.thrown

PreparedClass == lastCall.target

\* The value the class offered for x and the value of its parent, as they
\* were when the call was made.
ClassValueBefore(x) ==
    LET cs == lastCall.before
        u == lastCall.target
    IN IF x \in cs[u].pOwn THEN cs[u].proto[x]
       ELSE IF StaticGet(cs, u, x) # 0 THEN StaticGet(cs, u, x)
       ELSE ProtoGet(cs, u, x)

ParentValueBefore(x) ==
    StaticGet(lastCall.before, lastCall.before[lastCall.target].parent, x)

MapBefore(v) == lastCall.heapBefore[v].m

ShapeBefore(v) == lastCall.heapBefore[v].t

\* The two values are one value (===).
SameValue(cv, pv) ==
    \/ cv = pv
    \/ /\ cv # 0 /\ pv # 0
       /\ ShapeBefore(cv) = "str" /\ ShapeBefore(pv) = "str"
       /\ MapBefore(cv) = MapBefore(pv)

\* Not a callable and not empty.
Keyed(v) == v # 0 /\ ShapeBefore(v) # "fn" /\ DOMAIN MapBefore(v) # {}

\* The keys another value can contribute: none for a string primitive.
KeysBefore(v) == IF ShapeBefore(v) = "str" THEN EmptyMap ELSE MapBefore(v)

\* Both values are non-empty, neither is a callable, and they are not two
\* plain keyed structures.
OtherShapes(cv, pv) ==
    /\ Keyed(cv) /\ Keyed(pv) /\ ~SameValue(cv, pv)
    /\ ~(ShapeBefore(cv) = "obj" /\ ShapeBefore(pv) = "obj")

C23_Case ==
    /\ Prepared /\ lastCall.mixins = <<>>
    /\ OtherShapes(ClassValueBefore("h"), ParentValueBefore("h"))

\* The call appended no name to the names it inherited: every name it lists
\* itself counted as merged already.
NothingAppended(c) ==
    Record(c).automergeAttrs = Record(classes[c].parent).automergeAttrs

ListsAgain(x) ==
    LET o == GivenOptions(PreparedClass + 1) IN
    IsDef(o.automergeAttrs) /\ x \in Range(Val(o.automergeAttrs))

\* C23 as stated: when the class value and the parent value are both
\* non-empty and are not a combination of callables and plain keyed
\* structures (two arrays, say), nothing is merged: the class is not
\* written and its value is as it was.
C23_Original_OtherShapesNotMerged ==
    C23_Case =>
        LET u == PreparedClass
            cv == ClassValueBefore("h")
        IN /\ ("h" \in classes[u].sOwn) = ("h" \in lastCall.before[u].sOwn)
           /\ classes[u].statics["h"] = lastCall.before[u].statics["h"]
           /\ heap[cv].m = MapBefore(cv)

\* C23 (amended): two differing non-empty values of which neither is a
\* callable are merged whatever their shapes: the class is written with
\* the outcome of _.defaults, which is the class value filled in place with
\* the keys (indices, for an array) of the parent value that it lacks, or a
\* new String object when the class value is a string primitive; the merge
\* counts as done, so a class that lists the name again does not merge it a
\* second time.
C23_OtherShapesMerged ==
    C23_Case =>
        LET u == PreparedClass
            cv == ClassValueBefore("h")
            pv == ParentValueBefore("h")
            nv == classes[u].statics["h"]
        IN /\ "h" \in classes[u].sOwn
           /\ heap[nv].m = UnionOwnWins(MapBefore(cv), KeysBefore(pv))
           /\ IF ShapeBefore(cv) = "str"
              THEN nv > Len(lastCall.heapBefore) /\ heap[nv].t = "strobj"
              ELSE nv = cv
           /\ ListsAgain("h") => NothingAppended(u)

C23_Witness ==
    /\ C23_Case
    /\ ShapeBefore(ClassValueBefore("h")) = "arr"
    /\ ShapeBefore(ParentValueBefore("h")) = "arr"
    /\ ListsAgain("h")

EmptyBefore(v) ==
    v = 0 \/ (ShapeBefore(v) # "fn" /\ DOMAIN MapBefore(v) = {})

NotCallable(v) == v = 0 \/ ShapeBefore(v) # "fn"

\* The call appended x to the names it inherited: its own listing of x was
\* merged, so no merge of x had counted as done before.
AppendedOwn(c, x) ==
    Val(Record(c).automergeAttrs) =
        Append(Val(Record(classes[c].parent).automergeAttrs), x)

ReturnedFalse(c, x) == ListsAgain(x) => AppendedOwn(c, x)

ReturnedTrue(c, x) == ListsAgain(x) => NothingAppended(c)

\* The class surface of c holds for x what it held before the call.
ClassNotWritten(c, x) ==
    /\ (x \in classes[c].sOwn) = (x \in lastCall.before[c].sOwn)
    /\ classes[c].statics[x] = lastCall.before[c].statics[x]

Unchanged(v) == v = 0 \/ heap[v].m = MapBefore(v)

C24_Identical(u, x, cv, pv) ==
    SameValue(cv, pv) =>
        ClassNotWritten(u, x) /\ Unchanged(cv) /\ ReturnedFalse(u, x)

C24_ParentEmpty(u, x, cv, pv) ==
    (~SameValue(cv, pv) /\ EmptyBefore(pv)) =>
        /\ StaticGet(classes, u, x) = cv
        /\ Unchanged(cv)
        /\ ReturnedFalse(u, x)

C24_ClassEmpty(u, x, cv, pv) ==
    (~SameValue(cv, pv) /\ ~EmptyBefore(pv) /\ EmptyBefore(cv)) =>
        /\ x \in classes[u].sOwn
        /\ classes[u].statics[x] = pv
        /\ Unchanged(pv)
        /\ ReturnedTrue(u, x)

C24_BothPlain(u, x, cv, pv) ==
    (/\ ~SameValue(cv, pv) /\ Keyed(cv) /\ Keyed(pv)
     /\ ShapeBefore(cv) = "obj" /\ ShapeBefore(pv) = "obj") =>
        /\ x \in classes[u].sOwn
        /\ classes[u].statics[x] = cv
        /\ heap[cv].m = UnionOwnWins(MapBefore(cv), MapBefore(pv))
        /\ Unchanged(pv)
        /\ ReturnedTrue(u, x)

C24_Case(x) ==
    /\ Prepared /\ lastCall.mixins = <<>>
    /\ NotCallable(ClassValueBefore(x)) /\ NotCallable(ParentValueBefore(x))

\* C24: the rows of _automergeAttr without a callable.  Identical values:
\* nothing is written, false.  Parent value empty or absent: the class keeps
\* its value, false.  Class value empty or absent and parent value not: the
\* class holds the very value of the parent, true.  Two non-empty plain
\* keyed structures: the class value is their union, its own keys winning,
\* true.
C24_PlainRows ==
    \A x \in {"h", "n"} :
        C24_Case(x) =>
            /\ C24_Identical(PreparedClass, x, ClassValueBefore(x), ParentValueBefore(x))
            /\ C24_ParentEmpty(PreparedClass, x, ClassValueBefore(x), ParentValueBefore(x))
            /\ C24_ClassEmpty(PreparedClass, x, ClassValueBefore(x), ParentValueBefore(x))
            /\ C24_BothPlain(PreparedClass, x, ClassValueBefore(x), ParentValueBefore(x))

C24_Witness ==
    /\ C24_Case("h") /\ ListsAgain("h")
    /\ ~SameValue(ClassValueBefore("h"), ParentValueBefore("h"))
    /\ ClassValueBefore("h") # 0
    /\ EmptyBefore(ClassValueBefore("h"))
    /\ ~EmptyBefore(ParentValueBefore("h"))
    /\ classes[PreparedClass].statics["h"] = ParentValueBefore("h")

(***************************************************************************)
(* The claims about the callables stored by _automergeAttr, stated over    *)
(* the calls made so far.                                                  *)
(***************************************************************************)
\* What a user-authored callable computes, and what the two sides of a
\* stored callable amount to on the heap hp, as mappings.
RECURSIVE ExpectedSide(_, _, _, _)
ExpectedSide(hp, x, r, a) ==
    IF hp[x].t # "fn" THEN hp[x].m
    ELSE IF hp[x].c = 0
    THEN UnionOwnWins(hp[x].m,
                      IF hp[x].dyn = "arg" THEN [k \in {a} |-> 1]
                      ELSE IF hp[x].dyn = "this" THEN [k \in {r} |-> 1]
                      ELSE EmptyMap)
    ELSE UnionOwnWins(ExpectedSide(hp, hp[x].c, r, a),
                      IF hp[hp[x].p].t = "str" THEN EmptyMap
                      ELSE ExpectedSide(hp, hp[x].p, r, a))

IsMergedCall(e) == e.heapBefore[e.fn].c # 0

\* Call j follows call i of the same callable with nothing in between.
FollowsDirectly(i, j) ==
    /\ j = i + 1 /\ j \in DOMAIN invoked
    /\ invoked[j].fn = invoked[i].fn
    /\ invoked[j].heapBefore = invoked[i].heapAfter

\* C25 as stated: a call of a stored callable with the receiver r and the
\* argument a returns the union of the class side and the parent side for r
\* and a, the keys of the class side winning, and what it returns is what
\* it would have returned had the calls before it not been made.
C25_Original_CallsIndependent ==
    \A i \in DOMAIN invoked :
        IsMergedCall(invoked[i]) =>
            /\ invoked[i].value =
                   ExpectedSide(invoked[i].heapBefore, invoked[i].fn,
                                invoked[i].recv, invoked[i].arg)
            /\ \A j \in DOMAIN invoked :
                   FollowsDirectly(i, j) =>
                       invoked[j].value =
                           ExpectedSide(invoked[i].heapBefore, invoked[j].fn,
                                        invoked[j].recv, invoked[j].arg)

(***************************************************************************)
(* Reading a merged attribute through the class and through the prototype. *)
(***************************************************************************)
PreparedAny == lastCall.op \in {"spinaSubclass", "extend"} /\ ~lastCall.thrown

\* The class the last call prepared: the class handed to spinaSubclass, or
\* the class extend() made.
MergedClass ==
    IF lastCall.op = "extend" THEN Len(lastCall.before) + 1
    ELSE lastCall.target

\* The call, one without mixins, merged x for the class: it wrote the
\* class, with a value that is not the one its parent reads.
MergedFor(x) ==
    /\ PreparedAny /\ lastCall.mixins = <<>>
    /\ x \in classes[MergedClass].sOwn
    /\ classes[MergedClass].statics[x] # 0
    /\ IF lastCall.op = "extend" THEN lastCall.protoProps[x] # 0
       ELSE ~SameValue(ClassValueBefore(x), ParentValueBefore(x))

\* C26 as stated: a merged attribute reads the same through the class and
\* through the prototype, however the class declared it.
C26_Original_SameOnBothSurfaces ==
    \A x \in {"h", "n"} :
        MergedFor(x) =>
            ProtoGet(classes, MergedClass, x) = StaticGet(classes, MergedClass, x)

\* C26 (amended): a merged attribute reads the same through the class and
\* through the prototype when the prototype of the class had the attribute
\* as its own property at the merge: declared on it, promoted by
\* prototypeAttrs or supplied through extend().  For a
\* static declaration that was not promoted only the class is written: the
\* prototype reads what the prototype of the parent reads.
C26_SameWhenOnPrototype ==
    \A x \in {"h", "n"} :
        MergedFor(x) =>
            IF x \in classes[MergedClass].pOwn
            THEN ProtoGet(classes, MergedClass, x) =
                     StaticGet(classes, MergedClass, x)
            ELSE ProtoGet(classes, MergedClass, x) =
                     ProtoGet(classes, classes[MergedClass].parent, x)

C26_Witness ==
    /\ MergedFor("h")
    /\ lastCall.op = "spinaSubclass"
    /\ "h" \in lastCall.before[MergedClass].sOwn
    /\ "h" \notin classes[MergedClass].pOwn
    /\ ProtoGet(classes, MergedClass, "h") # 0
    /\ ProtoGet(classes, MergedClass, "h") # StaticGet(classes, MergedClass, "h")

(***************************************************************************)
(* What preparing a class leaves alone.                                    *)
(***************************************************************************)
\* No attribute callable has been called since the last class call (every
\* call of a callable allocates a result).
NoCallSince ==
    invoked = <<>> \/ Len(Last(invoked).heapAfter) <= Len(lastCall.heapBefore)

\* The classes above the prepared class, as they were before the call.
RECURSIVE ChainUp(_, _)
ChainUp(cs, c) == IF c = 0 THEN {} ELSE {c} \cup ChainUp(cs, cs[c].parent)

AncestorsBefore ==
    IF lastCall.op = "extend" THEN ChainUp(lastCall.before, lastCall.target)
    ELSE ChainUp(lastCall.before, lastCall.before[lastCall.target].parent)

\* The value v reads now as it read before the call.
ReadsAsBefore(v) == v = 0 \/ heap[v] = lastCall.heapBefore[v]

\* The values the mixin source i holds.
MixinValues(i) ==
    {MixinTable[i].body[j].value : j \in DOMAIN MixinTable[i].body}
        \cup {MixinTable[i].statics[j].value : j \in DOMAIN MixinTable[i].statics}

\* C29 as stated: preparing a class changes no attribute value of its
\* ancestors, read through the class or through the prototype, and none of
\* the mixin sources it uses.
C29_Original_AncestorsAndMixinsKept ==
    (PreparedAny /\ NoCallSince) =>
        /\ \A c \in AncestorsBefore : \A x \in Attrs :
               /\ StaticGet(classes, c, x) = StaticGet(lastCall.before, c, x)
               /\ ProtoGet(classes, c, x) = ProtoGet(lastCall.before, c, x)
               /\ ReadsAsBefore(StaticGet(classes, c, x))
               /\ ReadsAsBefore(ProtoGet(classes, c, x))
        /\ \A i \in Range(lastCall.mixins) : \A v \in MixinValues(i) :
               ReadsAsBefore(v)

(***************************************************************************)
(* The init hook specification: base wrappers made from an existing class  *)
(* that is an ES6 class or a prototype-based constructor, with or without  *)
(* an initObject on its prototype, with or without options.initObject,     *)
(* and the constructions below them.                                       *)
(***************************************************************************)
MaxInitClasses == 4

ExistingClass(writable, protoInit) ==
    [RealBaseClass EXCEPT !.writable = writable, !.protoInit = protoInit]

InitOptionChoices ==
    {EmptyOptions, [EmptyOptions EXCEPT !.initObject = Some("initObject")]}

InitHook ==
    /\ classes \in {<<ExistingClass(wr, pi)>> : wr, pi \in BOOLEAN}
    /\ InitBelow
    /\ InitViews

NextHook ==
    \/ \E o \in InitOptionChoices : BaseClassExtends(o)
    \/ DefineClass(NoDecl, "forward", MaxInitClasses)
    \/ SpinaSubclass(EmptyOptions, MaxInitClasses)
    \/ \E t \in 1..MaxInitClasses, args \in ArgChoices : New(t, args)
    \/ EnterSub
    \/ EnterUser
    \/ EnterBase
    \/ ReturnSub
    \/ ReturnUser
    \/ Reset

SpecHook == InitHook /\ [][NextHook]_vars

\* The base wrapper, the existing class it was made from and the options it
\* was given.
BaseWrapper == CHOOSE c \in DOMAIN classes : classes[c].kind = "base"

Existing == classes[classes[BaseWrapper].parent]

BaseOptions == records[classes[BaseWrapper].options]

\* C27: the function a base wrapper runs as its init hook is
\* options.initObject when given; otherwise the initObject of the existing
\* class's prototype when there is one; otherwise, for an existing class
\* with a writable prototype property, the constructor of the existing
\* class; otherwise a function doing nothing.  The constructor of an
\* existing ES6 class is never run.
C27_HookSelection ==
    \A i \in DOMAIN hookCalls :
        /\ IsDef(BaseOptions.initObject) => hookCalls[i].ran = "options"
        /\ (~IsDef(BaseOptions.initObject) /\ Existing.protoInit) =>
               hookCalls[i].ran = "prototype"
        /\ (~IsDef(BaseOptions.initObject) /\ ~Existing.protoInit
               /\ Existing.writable) => hookCalls[i].ran = "constructor"
        /\ (~IsDef(BaseOptions.initObject) /\ ~Existing.protoInit
               /\ ~Existing.writable) => hookCalls[i].ran = "noop"
        /\ hookCalls[i].ran = "constructor" => Existing.writable

C27_Witness ==
    /\ pc = "done"
    /\ Len(hookCalls) = 1
    /\ hookCalls[1].ran = "constructor"
    /\ ~IsDef(BaseOptions.initObject)
    /\ Existing.writable /\ ~Existing.protoInit

(***************************************************************************)
(* Configuration records.                                                  *)
(***************************************************************************)
\* The record or options object i is afterwards what it was.
Kept(i) == i \in DOMAIN records' /\ records'[i] = records[i]

\* C28: no step changes an options object handed to a factory or a
\* configuration record computed before: every one of them keeps every
\* field, also when descendants share it, when a merge computes new lists
\* and when an empty automergeAttrs is dropped.
C28_RecordsKept == [][\A i \in DOMAIN records : Kept(i)]_vars

\* Three classes share one record by reference, below them a class has a
\* record of its own from which the empty automergeAttrs was dropped.
C28_Witness ==
    \E v, w \in Wrappers :
        /\ v # w
        /\ RecordRef(v) = RecordRef(Wrapped(v))
        /\ RecordRef(Wrapped(v)) = RecordRef(ParentOf(Wrapped(v)))
        /\ RecordRef(ParentOf(Wrapped(v))) # 0
        /\ RecordRef(w) # classes[w].options
        /\ RecordRef(w) # RecordRef(ParentOf(Wrapped(w)))
        /\ GivenOptions(w).skipParentAutomergeAttrs = SkipAll
        /\ ~IsDef(Record(w).automergeAttrs)
        /\ IsDef(Record(ParentOf(Wrapped(w))).automergeAttrs)

\* C30: when a subclass wrapper other than the requested one is entered
\* without the sentinel during the construction of a properly wrapped class
\* (a user-authored constructor below it passed arguments of its own), the
\* construction does not fail, that wrapper enters its parent with the
\* sentinel first, it never invokes initObject, and a finished construction
\* has invoked initObject exactly once, from the requested wrapper, with the
\* caller's arguments.
EnteredBare(i) ==
    /\ events[i].e = "enter"
    /\ ~events[i].s
    /\ events[i].cls # target
    /\ classes[events[i].cls].kind = "sub"

C30_RewritingConstructors ==
    \A i \in 1..Len(events) :
        (pc # "idle" /\ ProperlyWrapped(target) /\ EnteredBare(i)) =>
            LET W == events[i].cls IN
            /\ pc # "failed"
            /\ i < Len(events) =>
                   events[i + 1] = Event("enter", classes[W].parent, TRUE)
            /\ \A j \in 1..Len(events) :
                   events[j].e = "hook" => events[j].cls # W
            /\ \A j \in 1..Len(hookCalls) : hookCalls[j].by # W
            /\ pc = "done" =>
                   /\ Len(hookCalls) = 1
                   /\ hookCalls[1].by = target
                   /\ hookCalls[1].args = callArgs
                   /\ callArgs # RewrittenArgs

C30_Witness ==
    /\ pc = "done"
    /\ ProperlyWrapped(target)
    /\ callArgs = <<"x", "y">>
    /\ \E i \in 1..Len(events) : EnteredBare(i)
    /\ Len(hookCalls) = 1
    /\ hookCalls[1].args = callArgs

====
